---- MODULE Spec2Model ----
(***************************************************************************)
(* ClinicalSight scoring service (src/ai-models/app.py).                   *)
(*                                                                         *)
(* The module models the start-up loading of the three models and the     *)
(* three scoring routes (/fall/predict, /mood/predict,                     *)
(* /medication/adherence) together with /health.                           *)
(* The two feature extractors of the sequence classifiers, the arithmetic  *)
(* of the fall score, and the label rebalancing and the feature columns of *)
(* the synthetic data generator                                            *)
(* (training_data/generate_synthetic_data.py) are also run on their own,   *)
(* each under a specification of its own (SpecWindower, SpecScorer,        *)
(* SpecGenerator, SpecFeatures).                                           *)
(*                                                                         *)
(* Representation choices                                                  *)
(*  - A Python name is "undef" (not yet bound), "None" or "loaded".        *)
(*  - A JSON text is a tuple of one-character strings; JSON null in a      *)
(*    text field is the tuple NoneText.                                    *)
(*  - JSON null in a numeric field is the number NoneNum.                  *)
(*  - A key that is absent from an observation is represented by the       *)
(*    default its .get(key, default) call supplies (DefaultObs).           *)
(*  - Probabilities are integers in units of 1/10000.                      *)
(*  - The trained models are external: what predict / transform /          *)
(*    predict_proba return (or that they raise) is an input of the         *)
(*    request, recorded in its env field.                                  *)
(***************************************************************************)
EXTENDS Integers, Sequences, FiniteSets, TLC

VARIABLES
    boot,                     \* position in the module-level start-up code
    fall_model,               \* app.py:587
    fall_scaler,              \* app.py:588
    mood_lstm_model,          \* app.py:591
    mood_scaler_info,         \* app.py:592
    medication_lstm_model,    \* app.py:608
    medication_scaler_info,   \* app.py:609
    req,                      \* the request handled last (sequential service)
    resp,                     \* its response
    calls,                    \* collaborators invoked while handling it
    lstm_failures,            \* requests so far whose classifier block raised
    health,                   \* the last /health report
    slots,                    \* in-flight requests of the concurrent service
    windower,                 \* a run of a feature extractor on its own
    scorer,                   \* a run of the fall-score arithmetic on its own
    generator                 \* a run of the label rebalancing on its own

vars == <<boot, fall_model, fall_scaler, mood_lstm_model, mood_scaler_info,
          medication_lstm_model, medication_scaler_info, req, resp, calls,
          lstm_failures, health, slots, windower, scorer, generator>>

models == <<fall_model, fall_scaler, mood_lstm_model, mood_scaler_info,
            medication_lstm_model, medication_scaler_info>>

\* the units exercised on their own, outside the service
units == <<windower, scorer, generator>>
\* the service
service == <<boot, models, req, resp, calls, lstm_failures, health, slots>>

(***************************************************************************)
(* Bounds                                                                  *)
(***************************************************************************)
MaxLen == 3          \* longest features list of a request
MaxFailures == 2     \* cap of the lstm_failures history counter
NSlots == 2          \* requests in flight at once in the concurrent service

(***************************************************************************)
(* JSON values                                                             *)
(***************************************************************************)
NoneText == <<"<None>">>
NoneNum == 0 - 1000
Absent == "absent"
AbsentNum == 0 - 1

EmptyText == << >>
Txt8am == <<"8", "a", "m">>
TxtNausea == <<"n", "a", "u", "s", "e", "a">>

DefaultObs ==
    [mapping |-> TRUE,
     medication_refused |-> FALSE,
     observation_time |-> EmptyText,
     refusal_reason |-> EmptyText,
     confusion_flag |-> FALSE,
     agitation_flag |-> FALSE,
     depression_flag |-> FALSE,
     happy_flag |-> FALSE,
     withdrawn_flag |-> FALSE,
     has_mood_change |-> FALSE,
     mood_severity |-> 0,
     sleep_issue |-> FALSE,
     appetite_issue |-> FALSE,
     has_fall_event |-> FALSE,
     bp_systolic |-> 120]

\* an observation that is not a JSON object (e.g. a string)
NotAMapping == [DefaultObs EXCEPT !.mapping = FALSE]

(***************************************************************************)
(* Text: str.lower() and the substring tests on observation_time and       *)
(* refusal_reason, app.py:901-912 and 1035-1043                            *)
(***************************************************************************)
UpperCase == <<"A", "B", "C", "D", "E", "F", "G", "H", "I", "J", "K", "L", "M",
               "N", "O", "P", "Q", "R", "S", "T", "U", "V", "W", "X", "Y", "Z">>
LowerCase == <<"a", "b", "c", "d", "e", "f", "g", "h", "i", "j", "k", "l", "m",
               "n", "o", "p", "q", "r", "s", "t", "u", "v", "w", "x", "y", "z">>

\* str.lower(), app.py:901-902
Lower(text) ==
    [i \in 1..Len(text) |->
        IF \E k \in 1..26 : UpperCase[k] = text[i]
        THEN LowerCase[CHOOSE k \in 1..26 : UpperCase[k] = text[i]]
        ELSE text[i]]

\* `pattern in text`, app.py:905-912
Contains(text, pattern) ==
    \E i \in 0..(Len(text) - Len(pattern)) :
        SubSeq(text, i + 1, i + Len(pattern)) = pattern

TxtMorning == <<"m", "o", "r", "n", "i", "n", "g">>
TxtAm == <<"a", "m">>
TxtAfternoon == <<"a", "f", "t", "e", "r", "n", "o", "o", "n">>
TxtEvening == <<"e", "v", "e", "n", "i", "n", "g">>
TxtPm == <<"p", "m">>
TxtSideEffect == <<"s", "i", "d", "e", " ", "e", "f", "f", "e", "c", "t">>
TxtNight == <<"n", "i", "g", "h", "t">>
TxtConfus == <<"c", "o", "n", "f", "u", "s">>

(***************************************************************************)
(* Start-up: the module-level try block, app.py:581-632                    *)
(***************************************************************************)
NameStates == {"undef", "None", "loaded"}

\* the outer handler forgets to reset the fall model
OuterExcept_keeps_fall_model ==
    /\ fall_model' = fall_model
    /\ fall_scaler' = "None"
    /\ mood_lstm_model' = "None"
    /\ mood_scaler_info' = "None"
    /\ medication_lstm_model' = "None"
    /\ medication_scaler_info' = "None"
    /\ boot' = "loaded"

\* app.py:625-632, the handler of the outer try: every name is bound to None
OuterExcept ==
    /\ fall_model' = "None"
    /\ fall_scaler' = "None"
    /\ mood_lstm_model' = "None"
    /\ mood_scaler_info' = "None"
    /\ medication_lstm_model' = "None"
    /\ medication_scaler_info' = "None"
    /\ boot' = "loaded"

\* app.py:583: initialize_models() returns or raises (training, disk, ...)
StartInitializeModels ==
    /\ boot = "import"
    /\ \E raises \in BOOLEAN :
         IF raises THEN OuterExcept
         ELSE /\ boot' = "load_fall"
              /\ UNCHANGED models
    /\ UNCHANGED <<req, resp, calls, lstm_failures, health, slots, units>>

\* app.py:585-588: open + pickle.load + the two subscripts.  A failure of
\* any of them (also of ['scaler'], after fall_model was bound) ends in the
\* outer handler.
StartLoadFall ==
    /\ boot = "load_fall"
    /\ \E raises \in BOOLEAN :
         IF raises THEN OuterExcept
         ELSE /\ fall_model' = "loaded"
              /\ fall_scaler' = "loaded"
              /\ boot' = "load_mood"
              /\ UNCHANGED <<mood_lstm_model, mood_scaler_info,
                             medication_lstm_model, medication_scaler_info>>
    /\ UNCHANGED <<req, resp, calls, lstm_failures, health, slots, units>>

\* no inner try: a keras failure reaches the outer handler
StartLoadMood_unguarded ==
    /\ boot = "load_mood"
    /\ \E outcome \in {"loaded", "no_file", "ImportError", "Exception"} :
         IF outcome = "Exception" THEN OuterExcept
         ELSE /\ mood_lstm_model' =
                    IF outcome = "loaded" THEN "loaded" ELSE "None"
              /\ mood_scaler_info' = "None"
              /\ boot' = "load_mood_scaler"
              /\ UNCHANGED <<fall_model, fall_scaler, medication_lstm_model,
                             medication_scaler_info>>
    /\ UNCHANGED <<req, resp, calls, lstm_failures, health, slots, units>>
\* app.py:591-601: both names are bound to None first; the model is loaded
\* when the file exists and keras loads it; ImportError and every other
\* Exception are swallowed by the inner try.
StartLoadMood ==
    /\ boot = "load_mood"
    /\ \E outcome \in {"loaded", "no_file", "ImportError", "Exception"} :
         mood_lstm_model' = IF outcome = "loaded" THEN "loaded" ELSE "None"
    /\ mood_scaler_info' = "None"
    /\ boot' = "load_mood_scaler"
    /\ UNCHANGED <<fall_model, fall_scaler, medication_lstm_model,
                   medication_scaler_info>>
    /\ UNCHANGED <<req, resp, calls, lstm_failures, health, slots, units>>

\* app.py:603-605: outside the inner try, so a failing pickle.load reaches
\* the outer handler
StartLoadMoodScaler ==
    /\ boot = "load_mood_scaler"
    /\ \E outcome \in {"loaded", "no_file", "raises"} :
         IF outcome = "raises" THEN OuterExcept
         ELSE /\ mood_scaler_info' =
                    IF outcome = "loaded" THEN "loaded" ELSE mood_scaler_info
              /\ boot' = "load_medication"
              /\ UNCHANGED <<fall_model, fall_scaler, mood_lstm_model,
                             medication_lstm_model, medication_scaler_info>>
    /\ UNCHANGED <<req, resp, calls, lstm_failures, health, slots, units>>

\* app.py:608-618
StartLoadMedication ==
    /\ boot = "load_medication"
    /\ \E outcome \in {"loaded", "no_file", "ImportError", "Exception"} :
         medication_lstm_model' =
             IF outcome = "loaded" THEN "loaded" ELSE "None"
    /\ medication_scaler_info' = "None"
    /\ boot' = "load_medication_scaler"
    /\ UNCHANGED <<fall_model, fall_scaler, mood_lstm_model, mood_scaler_info>>
    /\ UNCHANGED <<req, resp, calls, lstm_failures, health, slots, units>>

\* app.py:620-624
StartLoadMedicationScaler ==
    /\ boot = "load_medication_scaler"
    /\ \E outcome \in {"loaded", "no_file", "raises"} :
         IF outcome = "raises" THEN OuterExcept
         ELSE /\ medication_scaler_info' =
                    IF outcome = "loaded" THEN "loaded"
                    ELSE medication_scaler_info
              /\ boot' = "loaded"
              /\ UNCHANGED <<fall_model, fall_scaler, mood_lstm_model,
                             mood_scaler_info, medication_lstm_model>>
    /\ UNCHANGED <<req, resp, calls, lstm_failures, health, slots, units>>

\* app.py:1524: app.run() is the last statement of the module; the routes
\* are served only from here on
ServerListening_early == TRUE
ServerListening == boot = "serving"

AppRun ==
    /\ boot = "loaded"
    /\ boot' = "serving"
    /\ UNCHANGED models
    /\ UNCHANGED <<req, resp, calls, lstm_failures, health, slots, units>>

(***************************************************************************)
(* Requests and responses                                                  *)
(***************************************************************************)
\* request.get_json(): None, {}, an object without 'features', or an object
\* with a features list
JsonKinds == {"null", "empty", "nokey", "features"}

\* data.get('features', []) in place of the membership test
MissingFeatures_defaulted(data) ==
    data.json \in {"null", "empty"}

\* app.py:684, 968, 1173: `not data or 'features' not in data`
MissingFeatures(data) ==
    \/ data.json \in {"null", "empty"}
    \/ data.json = "nokey"

\* the fields a jsonify() body may carry; Absent / AbsentNum / << >> mark a
\* key that the body does not have
BlankResponse ==
    [status |-> 200,
     error |-> Absent,
     tier |-> Absent,             \* risk_level / concern_level
     label |-> Absent,            \* risk_category / concern_label
     probability |-> AbsentNum,   \* fall_risk_probability, 1/10000
     risk_score |-> AbsentNum,    \* mood risk_score, 1/100
     adherence_rate |-> AbsentNum,\* 1/10 percent
     text |-> << >>,              \* mood_changes / adherence_summary / message
     model |-> Absent,
     model_note |-> Absent,
     lstm_confidence |-> AbsentNum,
     trend |-> Absent,
     observations |-> AbsentNum,  \* observations_analyzed / total_days
     recommendations |-> << >>,
     refusal_count |-> AbsentNum,
     refusal_details |-> << >>,   \* records of day, reason, time
     refusal_reasons |-> << >>,   \* pairs of reason and frequency
     refusal_time_pattern |-> << >>] \* morning, afternoon, evening, night

\* an error body that still carries a tier computed before the failure
ErrorResponse_partial(status, msg) ==
    [BlankResponse EXCEPT !.status = status, !.error = msg, !.tier = "low"]

\* jsonify({'error': msg}), status
ErrorResponse(status, msg) ==
    [BlankResponse EXCEPT !.status = status, !.error = msg]

ResultFields ==
    {"tier", "label", "probability", "risk_score", "adherence_rate", "text",
     "model", "model_note", "lstm_confidence", "trend", "observations",
     "recommendations", "refusal_count", "refusal_details",
     "refusal_reasons", "refusal_time_pattern"}

\* what a handler did: its response, the collaborators it invoked, and
\* whether its sequence-classifier block raised
Outcome(r, c, f) == [resp |-> r, calls |-> c, lstm_failed |-> f]

\* str(e) of the exceptions the model distinguishes
MsgNotMapping == "'str' object has no attribute 'get'"
MsgNoneFloat == "float() argument must be a string or a number, not 'NoneType'"
MsgNoneMean == "unsupported operand type(s) for +: 'NoneType' and 'NoneType'"
MsgNameError == "name is not defined"
MsgScaler == "scaler.transform failed"
MsgClassifier == "predict_proba failed"

\* the whole list
Take_whole(s, n) == s
\* first n elements of s (Python s[:n])
Take(s, n) == SubSeq(s, 1, IF n < Len(s) THEN n ELSE Len(s))

RECURSIVE CountIf(_, _)
\* number of elements of seq s whose flag field f is true
CountIf(s, f) ==
    IF s = << >> THEN 0
    ELSE (IF s[1][f] THEN 1 ELSE 0) + CountIf(Tail(s), f)

(***************************************************************************)
(* /medication/adherence, app.py:958-1161                                  *)
(***************************************************************************)
\* app.py:983 / 1189
UseLstm_sticky(model, features_list) ==
    model # "None" /\ Len(features_list) >= 3 /\ lstm_failures = 0
UseLstm_any_length(model, features_list) ==
    model # "None" /\ Len(features_list) >= 1
UseLstm(model, features_list) ==
    model # "None" /\ Len(features_list) >= 3

\* app.py:900-903, 921: .get on a non-mapping and .lower() on None raise
MedicationExtractRaises(features_list) ==
    \E i \in 1..Len(features_list) :
        \/ ~features_list[i].mapping
        \/ features_list[i].observation_time = NoneText
        \/ features_list[i].refusal_reason = NoneText

\* app.py:998-1003 (the same four keys at 1204-1209): a prediction outside
\* the table raises KeyError inside the try
InMapping(prediction) == prediction \in 0..3

MedicationConcern(prediction) ==
    CASE prediction = 0 -> <<"low", "GOOD">>
      [] prediction = 1 -> <<"moderate", "MODERATE CONCERN">>
      [] prediction = 2 -> <<"high", "HIGH CONCERN">>
      [] prediction = 3 -> <<"critical", "CRITICAL">>

\* app.py:1018-1047: the loop only fails on an observation without .get
MedicationTrackingRaises(features_list) ==
    \E i \in 1..Len(features_list) : ~features_list[i].mapping

\* the bounds are open below: exactly 50% is already "critical"
MedicationRuleConcern_open(refusal_count, total) ==
    LET kept == (total - refusal_count) * 100 IN
    IF kept > 90 * total THEN <<"low", "GOOD">>
    ELSE IF kept > 75 * total THEN <<"moderate", "MODERATE CONCERN">>
    ELSE IF kept > 50 * total THEN <<"high", "HIGH CONCERN">>
    ELSE <<"critical", "CRITICAL">>
\* "critical" only starts below 25%
MedicationRuleConcern_lenient(refusal_count, total) ==
    LET kept == (total - refusal_count) * 100 IN
    IF kept >= 90 * total THEN <<"low", "GOOD">>
    ELSE IF kept >= 75 * total THEN <<"moderate", "MODERATE CONCERN">>
    ELSE IF kept >= 25 * total THEN <<"high", "HIGH CONCERN">>
    ELSE <<"critical", "CRITICAL">>
\* app.py:1050-1065, compared without floating point:
\* rate >= k  <=>  (total - refused) * 100 >= k * total
MedicationRuleConcern(refusal_count, total) ==
    LET kept == (total - refusal_count) * 100 IN
    IF kept >= 90 * total THEN <<"low", "GOOD">>
    ELSE IF kept >= 75 * total THEN <<"moderate", "MODERATE CONCERN">>
    ELSE IF kept >= 50 * total THEN <<"high", "HIGH CONCERN">>
    ELSE <<"critical", "CRITICAL">>

\* round(num / den, 0) for num, den >= 0 as Python rounds an exactly
\* representable quotient: to nearest, ties to even
RoundHalfEven(num, den) ==
    LET q == num \div den
        r2 == 2 * (num % den)
    IN IF r2 > den THEN q + 1
       ELSE IF r2 < den THEN q
       ELSE IF q % 2 = 0 THEN q ELSE q + 1

\* app.py:1100-1122
MedicationRecommendations(concern_level) ==
    IF concern_level \in {"high", "critical"} THEN
        <<"Immediate intervention required",
          "Assess for medication side effects or swallowing difficulties",
          "Consider medication review with physician",
          "Evaluate for underlying causes (depression, confusion, side effects)",
          "Implement adherence support strategies">>
    ELSE IF concern_level = "moderate" THEN
        <<"Monitor adherence closely",
          "Explore reasons for refusal with resident",
          "Consider timing or formulation changes",
          "Engage family in adherence support">>
    ELSE
        <<"Continue current medication administration approach",
          "Maintain regular monitoring",
          "Reinforce positive adherence behaviors">>

\* app.py:973-978
MedicationInsufficient ==
    [BlankResponse EXCEPT
        !.text = <<"Insufficient data",
                   " for medication adherence analysis.">>,
        !.adherence_rate = 0,
        !.tier = "no_data"]

\* the except branch without `use_lstm = False`: the request goes on as if
\* the classifier had answered with its initial values
LstmBlock_no_reset(model, features_list, extract_raises, env, extractor, predictor) ==
    IF ~UseLstm(model, features_list) THEN
        [used |-> FALSE, failed |-> FALSE, calls |-> {},
         prediction |-> 0, confidence |-> 0]
    ELSE IF extract_raises THEN
        [used |-> TRUE, failed |-> TRUE, calls |-> {extractor},
         prediction |-> 0, confidence |-> 0]
    ELSE IF env.lstm_raises \/ ~InMapping(env.lstm_class) THEN
        [used |-> TRUE, failed |-> TRUE, calls |-> {extractor, predictor},
         prediction |-> 0, confidence |-> 0]
    ELSE
        [used |-> TRUE, failed |-> FALSE, calls |-> {extractor, predictor},
         prediction |-> env.lstm_class, confidence |-> env.lstm_confidence]

\* the sequence-classifier block, app.py:987-1009 and 1193-1215:
\* [used, failed, calls, prediction, confidence]
LstmBlock(model, features_list, extract_raises, env, extractor, predictor) ==
    IF ~UseLstm(model, features_list) THEN
        [used |-> FALSE, failed |-> FALSE, calls |-> {},
         prediction |-> 0, confidence |-> 0]
    ELSE IF extract_raises THEN
        [used |-> FALSE, failed |-> TRUE, calls |-> {extractor},
         prediction |-> 0, confidence |-> 0]
    ELSE IF env.lstm_raises \/ ~InMapping(env.lstm_class) THEN
        [used |-> FALSE, failed |-> TRUE, calls |-> {extractor, predictor},
         prediction |-> 0, confidence |-> 0]
    ELSE
        [used |-> TRUE, failed |-> FALSE, calls |-> {extractor, predictor},
         prediction |-> env.lstm_class, confidence |-> env.lstm_confidence]

\* `if x:` for a JSON string or null, app.py:1033 and 1037
Truthy(text) == text # << >> /\ text # NoneText

\* app.py:1037-1045: the bucket of one refusal; `and` binds tighter than
\* `or` at line 1040
RefusalTimeBucket(observation_time) ==
    LET time_lower == IF Truthy(observation_time) THEN Lower(observation_time)
                      ELSE << >>
    IN IF Contains(time_lower, TxtMorning) \/ Contains(time_lower, TxtAm)
       THEN "morning"
       ELSE IF \/ Contains(time_lower, TxtAfternoon)
               \/ Contains(time_lower, TxtPm) /\ Contains(time_lower, <<"1">>)
       THEN "afternoon"
       ELSE IF Contains(time_lower, TxtEvening) \/ Contains(time_lower, TxtPm)
       THEN "evening"
       ELSE IF Contains(time_lower, TxtNight) THEN "night"
       ELSE "none"

\* app.py:1018-1024: the enumerate(features_list, 1) numbers of the refused
\* days, in order
RefusedDays(features_list) ==
    LET med_refused(day_num) == features_list[day_num].medication_refused
    IN SelectSeq([day_num \in 1..Len(features_list) |-> day_num], med_refused)

\* one entry for every day, refused or not
RefusalDetails_every_day(features_list) ==
    [day_num \in 1..Len(features_list) |->
        [day |-> day_num,
         reason |-> features_list[day_num].refusal_reason,
         time |-> features_list[day_num].observation_time]]
\* app.py:1026-1030
RefusalDetails(features_list) ==
    LET days == RefusedDays(features_list)
    IN [k \in 1..Len(days) |->
           [day |-> days[k],
            reason |-> features_list[days[k]].refusal_reason,
            time |-> features_list[days[k]].observation_time]]

\* app.py:1032-1034: a dict keeps its keys in the order of first insertion
RefusalReasons(features_list) ==
    LET details == RefusalDetails(features_list)
        given(k) == Truthy(details[k].reason)
        first(k) == given(k) /\ \A j \in 1..(k - 1) :
                                  details[j].reason # details[k].reason
        keys == SelectSeq([k \in 1..Len(details) |-> k], first)
    IN [i \in 1..Len(keys) |->
           <<details[keys[i]].reason,
             Cardinality({k \in 1..Len(details) :
                             details[k].reason = details[keys[i]].reason})>>]

\* app.py:1016 and 1036-1045
RefusalTimes(features_list) ==
    LET details == RefusalDetails(features_list)
        count(bucket) ==
            Cardinality({k \in 1..Len(details) :
                            RefusalTimeBucket(details[k].time) = bucket})
    IN <<count("morning"), count("afternoon"), count("evening"),
         count("night")>>

\* app.py:1049-1158: from the counters of the tracking loop to the response
MedicationFinish(features_list, lstm, refusal_count, total_opportunities) ==
    LET sequence_length == Len(features_list)
        use_lstm == lstm.used
        concern == IF use_lstm THEN MedicationConcern(lstm.prediction)
                   ELSE MedicationRuleConcern(refusal_count,
                                              total_opportunities)
        recommendations == MedicationRecommendations(concern[1])
    IN [BlankResponse EXCEPT
            !.text = <<"summary">>,
            !.adherence_rate =
                RoundHalfEven((total_opportunities - refusal_count) * 1000,
                              total_opportunities),
            !.observations = sequence_length,
            !.tier = concern[1],
            !.label = concern[2],
            !.recommendations = Take(recommendations, 3),
            !.refusal_count = refusal_count,
            !.refusal_details = RefusalDetails(features_list),
            !.refusal_reasons = RefusalReasons(features_list),
            !.refusal_time_pattern = RefusalTimes(features_list),
            !.model = IF use_lstm THEN "LSTM_Temporal_Adherence_Analyzer"
                      ELSE "Rule_Based_Adherence_Analyzer",
            !.model_note = IF use_lstm
                           THEN "AI-powered temporal pattern analysis"
                           ELSE Absent]

\* use_lstm stays as computed at line 983, whatever the block did
MedicationLstm_keeps_flag(features_list, env) ==
    [LstmBlock(medication_lstm_model, features_list,
               MedicationExtractRaises(features_list), env,
               "extract_medication_features_for_lstm",
               "medication_lstm_model.predict")
        EXCEPT !.used = UseLstm(medication_lstm_model, features_list)]
\* app.py:987-1009
MedicationLstm(features_list, env) ==
    LstmBlock(medication_lstm_model, features_list,
              MedicationExtractRaises(features_list), env,
              "extract_medication_features_for_lstm",
              "medication_lstm_model.predict")

analyze_medication_adherence(data, env) ==
    IF MissingFeatures(data) THEN
        Outcome(ErrorResponse(400, "Missing features data"), {}, FALSE)
    ELSE IF Len(data.features) = 0 THEN
        Outcome(MedicationInsufficient, {}, FALSE)
    ELSE IF medication_lstm_model = "undef" THEN
        Outcome(ErrorResponse(500, MsgNameError), {}, FALSE)
    ELSE
        LET features_list == data.features
            lstm == MedicationLstm(features_list, env)
        IN
        IF MedicationTrackingRaises(features_list) THEN
            Outcome(ErrorResponse(500, MsgNotMapping), lstm.calls, lstm.failed)
        ELSE
            Outcome(MedicationFinish(features_list, lstm,
                        CountIf(features_list, "medication_refused"),
                        Len(features_list)),
                    lstm.calls, lstm.failed)

(***************************************************************************)
(* /mood/predict, app.py:1164-1381                                         *)
(***************************************************************************)
\* app.py:844-866: .get on a non-mapping raises, and so does None / 4.0
MoodExtractRaises(features_list) ==
    \E i \in 1..Len(features_list) :
        \/ ~features_list[i].mapping
        \/ features_list[i].mood_severity = NoneNum

\* app.py:1204-1209
MoodRisk(prediction) ==
    CASE prediction = 0 -> <<"low", "LOW">>
      [] prediction = 1 -> <<"moderate", "MODERATE">>
      [] prediction = 2 -> <<"high", "HIGH CONCERN">>
      [] prediction = 3 -> <<"critical", "CRITICAL">>

\* app.py:1230-1256: the loop only fails on an observation without .get
MoodTrackingRaises(features_list) ==
    \E i \in 1..Len(features_list) : ~features_list[i].mapping

RECURSIVE SeveritySequence(_)
\* app.py:1244-1248: the severities of the days flagged has_mood_change
SeveritySequence(features_list) ==
    IF features_list = << >> THEN << >>
    ELSE (IF features_list[1].has_mood_change
          THEN <<features_list[1].mood_severity>> ELSE << >>)
         \o SeveritySequence(Tail(features_list))

\* app.py:1259-1262: max() of a list holding None next to a number, and
\* np.mean of any list holding None, raise TypeError
MoodStatisticsRaise(severity_sequence) ==
    \E i \in 1..Len(severity_sequence) : severity_sequence[i] = NoneNum

RECURSIVE SeqSum(_)
SeqSum(s) == IF s = << >> THEN 0 ELSE s[1] + SeqSum(Tail(s))

RECURSIVE SeqMax(_)
SeqMax(s) ==
    IF Len(s) = 1 THEN s[1]
    ELSE LET m == SeqMax(Tail(s)) IN IF s[1] >= m THEN s[1] ELSE m

\* app.py:1273-1279 is evaluated in IEEE-754 doubles, left to right.  The
\* sum of the five products is a multiple of 0.1 in decimal arithmetic; as
\* evaluated it can miss that value by one unit in the last place.  Of all
\* count vectors with counts up to 8 whose decimal sum is exactly 2, 4 or 6,
\* these two evaluate below it (2.8 + 2.4 = 5.199999999999999, and
\* 1.5 + 1.3 + 2.4 = 5.199999999999999; plus 0.8: 5.999999999999999).
WeightedRoundsBelow(counts) ==
    <<counts.depression, counts.confusion, counts.agitation,
      counts.withdrawn, counts.happy>> \in {<<0, 2, 0, 2, 1>>, <<1, 0, 1, 2, 1>>}

\* app.py:1270-1292, the weights times 10 and avg_severity >= 2 as
\* sum >= 2 * count; weighted_score >= t as evaluated in doubles
MoodRuleRisk(counts, severity_sequence) ==
    LET weighted_score == counts.depression * 15 + counts.confusion * 14
                          + counts.agitation * 13 + counts.withdrawn * 12
                          + counts.happy * 8
        Reaches(t) == \/ weighted_score > t
                      \/ weighted_score = t /\ ~WeightedRoundsBelow(counts)
        n == Len(severity_sequence)
        max_severity == IF n > 0 THEN SeqMax(severity_sequence) ELSE 0
        avg_ge_2 == n > 0 /\ SeqSum(severity_sequence) >= 2 * n
    IN IF max_severity >= 4 \/ Reaches(60)
           THEN <<"critical", "CRITICAL">>
       ELSE IF max_severity >= 3 \/ Reaches(40)
           THEN <<"high", "HIGH CONCERN">>
       ELSE IF avg_ge_2 \/ Reaches(20)
           THEN <<"moderate", "MODERATE">>
       ELSE <<"low", "LOW">>

\* app.py:1298-1305, the leading statement of the narrative
MoodAssessment(risk_level) ==
    CASE risk_level = "critical" ->
           "CRITICAL: Significant mood instability requiring immediate attention"
      [] risk_level = "high" ->
           "HIGH CONCERN: Notable mood disturbances observed"
      [] risk_level = "moderate" ->
           "MODERATE: Some mood variations detected"
      [] OTHER -> "Overall mood stable with minor fluctuations"

\* app.py:1333-1354
MoodRecommendations(risk_level) ==
    IF risk_level \in {"critical", "high"} THEN
        <<"Immediate care team notification required",
          "Consider mental health specialist referral",
          "Enhanced supervision recommended",
          "Review and adjust care plan urgently">>
    ELSE IF risk_level = "moderate" THEN
        <<"Increase monitoring frequency",
          "Consider family consultation",
          "Evaluate environmental triggers",
          "Review medication compliance">>
    ELSE
        <<"Continue current care plan",
          "Maintain regular mood monitoring",
          "Encourage social activities">>

\* app.py:1178-1184
MoodInsufficient ==
    [BlankResponse EXCEPT
        !.text = <<"Insufficient data",
                   " for mood analysis. Add shift observations to enable predictions.">>,
        !.model = "LSTM_Mood_Analyzer",
        !.tier = "no_data",
        !.risk_score = 0]

\* app.py:1218-1224, 1232-1241
MoodFlagsCount(features_list) ==
    [confusion |-> CountIf(features_list, "confusion_flag"),
     agitation |-> CountIf(features_list, "agitation_flag"),
     depression |-> CountIf(features_list, "depression_flag"),
     happy |-> CountIf(features_list, "happy_flag"),
     withdrawn |-> CountIf(features_list, "withdrawn_flag")]

\* app.py:1258-1378: from the counters of the tracking loop to the response
MoodFinish(features_list, lstm, mood_flags_count, severity_sequence) ==
    IF MoodStatisticsRaise(severity_sequence) THEN
        ErrorResponse(500, MsgNoneMean)
    ELSE
        LET use_lstm == lstm.used
            n == Len(severity_sequence)
            risk == IF use_lstm THEN MoodRisk(lstm.prediction)
                    ELSE MoodRuleRisk(mood_flags_count, severity_sequence)
            recommendations == MoodRecommendations(risk[1])
        IN [BlankResponse EXCEPT
                !.text = <<MoodAssessment(risk[1])>>,
                !.model = IF use_lstm THEN "LSTM_Mood_Analyzer"
                          ELSE "Rule_Based_Mood_Analyzer",
                !.tier = risk[1],
                !.label = risk[2],
                !.risk_score =
                    IF use_lstm THEN lstm.confidence * 10
                    ELSE IF n = 0 THEN 0
                    ELSE RoundHalfEven(SeqSum(severity_sequence) * 100, n),
                !.observations = Len(features_list),
                !.recommendations = Take(recommendations, 3),
                !.lstm_confidence =
                    IF use_lstm THEN lstm.confidence ELSE AbsentNum,
                !.model_note =
                    IF use_lstm
                    THEN "AI-powered temporal mood pattern analysis"
                    ELSE Absent]

\* app.py:1193-1215
MoodLstm(features_list, env) ==
    LstmBlock(mood_lstm_model, features_list,
              MoodExtractRaises(features_list), env,
              "extract_mood_features_for_lstm",
              "mood_lstm_model.predict")

predict_mood(data, env) ==
    IF MissingFeatures(data) THEN
        Outcome(ErrorResponse(400, "Missing features data"), {}, FALSE)
    ELSE IF Len(data.features) = 0 THEN
        Outcome(MoodInsufficient, {}, FALSE)
    ELSE IF mood_lstm_model = "undef" THEN
        Outcome(ErrorResponse(500, MsgNameError), {}, FALSE)
    ELSE
        LET features_list == data.features
            lstm == MoodLstm(features_list, env)
        IN
        IF MoodTrackingRaises(features_list) THEN
            Outcome(ErrorResponse(500, MsgNotMapping), lstm.calls, lstm.failed)
        ELSE
            Outcome(MoodFinish(features_list, lstm,
                               MoodFlagsCount(features_list),
                               SeveritySequence(features_list)),
                    lstm.calls, lstm.failed)

(***************************************************************************)
(* The feature extractors of the sequence classifiers, app.py:840-955      *)
(*                                                                         *)
(* A row is a tuple of integers: the 0/1 features as they are, the         *)
(* fractional features (x / 4.0, x / 7.0, x / 3.0, x / len) in units of    *)
(* 1/2520, which is exact for every denominator up to 10.                  *)
(***************************************************************************)
Frac(num, den) == (num * 2520) \div den

Bit(b) == IF b THEN 1 ELSE 0

\* app.py:884 and 946
target_length == 7

\* a row of `[0] * width`, app.py:887 and 949
ZeroRow(width) == [i \in 1..width |-> 0]

\* the window keeps the first days instead of the last
PadOrTruncate_head(sequence, width) ==
    IF Len(sequence) < target_length THEN
        [i \in 1..(target_length - Len(sequence)) |-> ZeroRow(width)]
            \o sequence
    ELSE SubSeq(sequence, 1, target_length)
\* the padding is appended instead of prepended
PadOrTruncate_right(sequence, width) ==
    IF Len(sequence) < target_length THEN
        sequence \o
            [i \in 1..(target_length - Len(sequence)) |-> ZeroRow(width)]
    ELSE SubSeq(sequence, Len(sequence) - target_length + 1, Len(sequence))
\* app.py:883-891 and 945-953: pad or truncate to exactly 7 days
PadOrTruncate(sequence, width) ==
    IF Len(sequence) < target_length THEN
        [i \in 1..(target_length - Len(sequence)) |-> ZeroRow(width)]
            \o sequence
    ELSE IF Len(sequence) > target_length THEN
        SubSeq(sequence, Len(sequence) - target_length + 1, Len(sequence))
    ELSE sequence

\* the happy and withdrawn columns change places
MoodDayFeatures_swapped(features) ==
    <<Bit(features.confusion_flag), Bit(features.agitation_flag),
      Bit(features.depression_flag), Bit(features.withdrawn_flag),
      Bit(features.happy_flag), Frac(features.mood_severity, 4),
      Bit(features.sleep_issue \/ features.agitation_flag
            \/ features.confusion_flag),
      Bit(features.appetite_issue \/ features.depression_flag),
      Bit(features.happy_flag /\ ~features.withdrawn_flag),
      Bit((features.agitation_flag \/ features.confusion_flag)
            /\ features.mood_severity >= 3)>>
\* app.py:844-879: the 10 features of one day
MoodDayFeatures(features) ==
    LET confusion == Bit(features.confusion_flag)
        agitation == Bit(features.agitation_flag)
        depression == Bit(features.depression_flag)
        happy == Bit(features.happy_flag)
        withdrawn == Bit(features.withdrawn_flag)
        severity == Frac(features.mood_severity, 4)
        sleep_disruption ==
            Bit(features.sleep_issue \/ agitation = 1 \/ confusion = 1)
        appetite_change == Bit(features.appetite_issue \/ depression = 1)
        social_engagement == Bit(happy = 1 /\ withdrawn # 1)
        behavioral_concern ==
            Bit((agitation = 1 \/ confusion = 1)
                    /\ features.mood_severity >= 3)
    IN <<confusion, agitation, depression, happy, withdrawn, severity,
         sleep_disruption, appetite_change, social_engagement,
         behavioral_concern>>

\* what the extractor hands back: it raised, or the (7, width) array
Raised == [raised |-> TRUE, sequence |-> << >>]
Returned(sequence) == [raised |-> FALSE, sequence |-> sequence]

\* app.py:840-893
extract_mood_features_for_lstm(features_list) ==
    IF MoodExtractRaises(features_list) THEN Raised
    ELSE Returned(PadOrTruncate(
             [day \in 1..Len(features_list) |->
                 MoodDayFeatures(features_list[day])], 10))

\* app.py:916-920: refusals among the two days before day_idx (0-based)
Consecutive(features_list, day_idx) ==
    Cardinality({i \in 0..(day_idx - 1) :
                    /\ i >= day_idx - 2
                    /\ i < Len(features_list)
                    /\ features_list[i + 1].medication_refused})

\* app.py:900-940: the 11 features of the day at day_idx (0-based)
MedicationDayFeatures(features_list, day_idx) ==
    LET features == features_list[day_idx + 1]
        refused == features.medication_refused
        observation_time == Lower(features.observation_time)
        refusal_reason == Lower(features.refusal_reason)
        time_morning ==
            Bit(refused /\ (Contains(observation_time, TxtMorning)
                            \/ Contains(observation_time, TxtAm)))
        time_afternoon ==
            Bit(refused /\ Contains(observation_time, TxtAfternoon))
        time_evening ==
            Bit(refused /\ (Contains(observation_time, TxtEvening)
                            \/ Contains(observation_time, TxtPm)))
        has_side_effects ==
            Bit(refused /\ (Contains(refusal_reason, TxtSideEffect)
                            \/ Contains(refusal_reason, TxtNausea)))
        has_confusion == Bit(refused /\ Contains(refusal_reason, TxtConfus))
        has_nausea == Bit(refused /\ Contains(refusal_reason, TxtNausea))
        day_of_week == Frac(day_idx % 7, 7)
        consecutive_norm == Frac(Consecutive(features_list, day_idx), 3)
        last == Len(features_list) - 1
        sequence_position == Frac(day_idx, IF last > 1 THEN last ELSE 1)
        sequence_progress == Frac(day_idx + 1, Len(features_list))
    IN <<Bit(refused), time_morning, time_afternoon, time_evening,
         has_side_effects, has_confusion, has_nausea, day_of_week,
         consecutive_norm, sequence_position, sequence_progress>>

\* app.py:896-955
extract_medication_features_for_lstm(features_list) ==
    IF MedicationExtractRaises(features_list) THEN Raised
    ELSE Returned(PadOrTruncate(
             [day \in 1..Len(features_list) |->
                 MedicationDayFeatures(features_list, day - 1)], 11))

(***************************************************************************)
(* /fall/predict, app.py:675-837                                           *)
(***************************************************************************)
\* app.py:652-671: .get on a non-mapping raises, and so does float(None)
FallExtractRaises(features) ==
    \/ ~features.mapping
    \/ features.bp_systolic = NoneNum

\* every day weighs the same
Weights_uniform == <<1000, 1000, 1000, 1000, 1000, 1000, 1000, 1000>>
\* app.py:722: np.exp(i * 0.35) for i = 0..7, times 1000 and rounded
Weights == <<1000, 1419, 2014, 2858, 4055, 5755, 8166, 11588>>

RECURSIVE WeightedSum(_, _)
\* sum of predictions[i] * Weights[i] over the first k days
WeightedSum(predictions, k) ==
    IF k = 0 THEN 0
    ELSE predictions[k] * Weights[k] + WeightedSum(predictions, k - 1)

RECURSIVE WeightSum(_)
WeightSum(k) == IF k = 0 THEN 0 ELSE Weights[k] + WeightSum(k - 1)

\* app.py:746: np.average(predictions, weights=weights)
WeightedAverage(predictions) ==
    WeightedSum(predictions, Len(predictions)) \div WeightSum(Len(predictions))

\* the first value stands in only from 4 days on; with 3 days nothing is
\* compared
Trend_from_four(predictions) ==
    LET n == Len(predictions) IN
    IF n >= 4 THEN
        LET recent == SeqSum(SubSeq(predictions, n - 2, n))
            m == n - 3
            earlier == SeqSum(SubSeq(predictions, 1, n - 3))
        IN IF recent * m > 3 * earlier + 3 * m * 1000 THEN "increasing"
           ELSE IF recent * m < 3 * earlier - 3 * m * 1000 THEN "decreasing"
           ELSE "stable"
    ELSE IF n = 3 THEN "stable"
    ELSE "insufficient_data"
\* app.py:749-754; recent_avg > earlier_avg + 0.1 with both means cleared of
\* their denominators (0.1 is 1000 units)
Trend(predictions) ==
    LET n == Len(predictions) IN
    IF n >= 3 THEN
        LET recent == SeqSum(SubSeq(predictions, n - 2, n))
            m == IF n > 3 THEN n - 3 ELSE 1
            earlier == IF n > 3 THEN SeqSum(SubSeq(predictions, 1, n - 3))
                       ELSE predictions[1]
        IN IF recent * m > 3 * earlier + 3 * m * 1000 THEN "increasing"
           ELSE IF recent * m < 3 * earlier - 3 * m * 1000 THEN "decreasing"
           ELSE "stable"
    ELSE "insufficient_data"

\* app.py:760: np.clip(p, 0.0, 1.0)
Clip(p) == IF p < 0 THEN 0 ELSE IF p > 10000 THEN 10000 ELSE p

\* the top tier starts above 0.75 instead of at 0.75
FallRiskLevel_open(fall_risk_probability) ==
    IF fall_risk_probability > 7500 THEN <<"very_high", "CRITICAL">>
    ELSE IF fall_risk_probability >= 5000 THEN <<"high", "HIGH">>
    ELSE IF fall_risk_probability >= 3000 THEN <<"moderate", "MODERATE">>
    ELSE IF fall_risk_probability >= 1500 THEN <<"low_moderate", "LOW-MODERATE">>
    ELSE <<"low", "LOW">>
\* app.py:763-777
FallRiskLevel(fall_risk_probability) ==
    IF fall_risk_probability >= 7500 THEN <<"very_high", "CRITICAL">>
    ELSE IF fall_risk_probability >= 5000 THEN <<"high", "HIGH">>
    ELSE IF fall_risk_probability >= 3000 THEN <<"moderate", "MODERATE">>
    ELSE IF fall_risk_probability >= 1500 THEN <<"low_moderate", "LOW-MODERATE">>
    ELSE <<"low", "LOW">>

\* app.py:800-821
FallRecommendations(risk_level) ==
    IF risk_level \in {"very_high", "high"} THEN
        <<"Immediate intervention required",
          "Implement fall prevention protocol",
          "Consider 1:1 supervision",
          "Environmental safety assessment needed",
          "Review and adjust medications">>
    ELSE IF risk_level = "moderate" THEN
        <<"Enhanced monitoring recommended",
          "Mobility assessment indicated",
          "Review assistive devices",
          "Consider physical therapy referral">>
    ELSE
        <<"Continue standard care",
          "Maintain regular assessments",
          "Encourage safe mobility practices">>

\* app.py:692-697
FallInsufficient ==
    [BlankResponse EXCEPT
        !.probability = 0,
        !.tier = "insufficient_data",
        !.text = <<"Add shift observations to enable fall risk predictions">>]

\* app.py:689-690
FallModelUnavailable_degraded == FallInsufficient
FallModelUnavailable == ErrorResponse(500, "Model not loaded")

\* app.py:711-725: the day at which the loop raises, 0 when it does not, with
\* the collaborators reached up to there and str(e)
FallLoop(features_list, env) ==
    LET bad == {i \in 1..Len(features_list) :
                    FallExtractRaises(features_list[i])}
        first == IF bad = {} THEN 0
                 ELSE CHOOSE i \in bad : \A j \in bad : i <= j
    IN IF first = 1 THEN
           [raises |-> TRUE, calls |-> {"extract_fall_features"},
            msg |-> IF features_list[1].mapping THEN MsgNoneFloat
                    ELSE MsgNotMapping]
       ELSE IF fall_scaler # "loaded" \/ env.scaler_raises THEN
           [raises |-> TRUE,
            calls |-> {"extract_fall_features", "fall_scaler.transform"},
            msg |-> MsgScaler]
       ELSE IF env.classifier_raises THEN
           [raises |-> TRUE,
            calls |-> {"extract_fall_features", "fall_scaler.transform",
                       "fall_model.predict_proba"},
            msg |-> MsgClassifier]
       ELSE
           [raises |-> first # 0,
            calls |-> {"extract_fall_features", "fall_scaler.transform",
                       "fall_model.predict_proba"},
            msg |-> IF first = 0 THEN Absent
                    ELSE IF features_list[first].mapping THEN MsgNoneFloat
                    ELSE MsgNotMapping]

\* app.py:744-834: from the per-day predictions to the response
FallFinish(features_list, predictions) ==
    LET fall_risk_probability == Clip(WeightedAverage(predictions))
        risk == FallRiskLevel(fall_risk_probability)
        recommendations == FallRecommendations(risk[1])
    IN [BlankResponse EXCEPT
            !.probability = RoundHalfEven(fall_risk_probability, 10) * 10,
            !.tier = risk[1],
            !.label = risk[2],
            !.trend = Trend(predictions),
            !.recommendations = Take(recommendations, 3),
            !.observations = Len(features_list),
            !.model = "GradientBoostingClassifier"]

predict_fall_risk(data, env) ==
    IF MissingFeatures(data) THEN
        Outcome(ErrorResponse(400, "Missing features data"), {}, FALSE)
    ELSE IF fall_model = "undef" THEN
        Outcome(ErrorResponse(500, MsgNameError), {}, FALSE)
    ELSE IF fall_model = "None" THEN
        Outcome(FallModelUnavailable, {}, FALSE)
    ELSE IF Len(data.features) = 0 THEN
        Outcome(FallInsufficient, {}, FALSE)
    ELSE
        LET features_list == data.features
            loop == FallLoop(features_list, env)
        IN
        IF loop.raises THEN
            Outcome(ErrorResponse(500, loop.msg), loop.calls, FALSE)
        ELSE
            Outcome(FallFinish(features_list,
                        SubSeq(env.probabilities, 1, Len(features_list))),
                    loop.calls, FALSE)

(***************************************************************************)
(* /health and /metrics, app.py:1384-1499                                  *)
(***************************************************************************)
NoReport == [route |-> "none", fall |-> Absent, mood |-> Absent,
             medication |-> Absent]

\* app.py:1399-1422, the status of each model
HealthFallStatus == IF fall_model # "None" THEN "loaded" ELSE "not_loaded"

health_check ==
    [route |-> "health",
     fall |-> HealthFallStatus,
     mood |-> IF mood_lstm_model # "None" THEN "loaded" ELSE "not_loaded",
     medication |-> IF medication_lstm_model # "None" THEN "loaded"
                    ELSE "rule_based"]

\* app.py:1428-1499, the type reported for each model; the fall entry is
\* only present when the model is loaded
get_metrics ==
    [route |-> "metrics",
     fall |-> IF fall_model # "None" THEN "GradientBoostingClassifier"
              ELSE Absent,
     mood |-> IF mood_lstm_model # "None" THEN "Bidirectional_LSTM"
              ELSE "Rule_Based_System",
     medication |-> IF medication_lstm_model # "None" THEN "Bidirectional_LSTM"
                    ELSE "Rule_Based_System"]

(***************************************************************************)
(* Inputs of the sequential service                                        *)
(***************************************************************************)
\* medication observations: nothing set; a refusal at 8am because of nausea;
\* an accepted dose whose observation_time is null; not a JSON object
RefusedObs == [DefaultObs EXCEPT !.medication_refused = TRUE,
                                 !.observation_time = Txt8am,
                                 !.refusal_reason = TxtNausea]
NullTimeObs == [DefaultObs EXCEPT !.observation_time = NoneText]
EveningObs ==
    [DefaultObs EXCEPT !.medication_refused = TRUE,
                       !.observation_time = <<"9", " ", "P", "M">>,
                       !.refusal_reason =
                           <<"C", "o", "n", "f", "u", "s", "e", "d">>]
\* refusals at "1 PM" and at "Night" because of nausea, and a refusal with a
\* null time and no reason
AfternoonObs == [RefusedObs EXCEPT !.observation_time = <<"1", " ", "P", "M">>]
NightObs == [RefusedObs EXCEPT !.observation_time = <<"N", "i", "g", "h", "t">>]
SilentRefusalObs == [DefaultObs EXCEPT !.medication_refused = TRUE,
                                       !.observation_time = NoneText]
MedicationSamples == {DefaultObs, RefusedObs, NullTimeObs, NotAMapping}

\* mood observations: nothing set; depression with a severity-3 change; a
\* happy day; a null severity without / with has_mood_change
DepressedObs == [DefaultObs EXCEPT !.depression_flag = TRUE,
                                   !.has_mood_change = TRUE,
                                   !.mood_severity = 3]
NullSeverityObs == [DefaultObs EXCEPT !.mood_severity = NoneNum]
NullSeverityChangeObs == [DefaultObs EXCEPT !.mood_severity = NoneNum,
                                            !.has_mood_change = TRUE]
MoodSamples == {DefaultObs, DepressedObs, NullSeverityObs,
                NullSeverityChangeObs, NotAMapping}

\* fall observations: nothing set; a null blood pressure; not a JSON object
NullBpObs == [DefaultObs EXCEPT !.bp_systolic = NoneNum]
FallSamples == {DefaultObs, NullBpObs, NotAMapping}

\* per-day outputs of the point classifier, 1/10000
ProbabilitySamples == {1000, 7500}
\* confidence of the sequence classifier, 1/1000
ConfidenceSamples == {400, 900}

FeatureLists(samples) == UNION {[1..n -> samples] : n \in 0..MaxLen}

DefaultEnv ==
    [lstm_raises |-> FALSE, lstm_class |-> 0, lstm_confidence |-> 0,
     scaler_raises |-> FALSE, classifier_raises |-> FALSE,
     probabilities |-> << >>]

\* what model.predict does: it raises, or its argmax is one of 0..3 (or an
\* index beyond the table when the loaded file has more outputs)
LstmEnvs ==
    {[DefaultEnv EXCEPT !.lstm_raises = TRUE]}
    \cup {[DefaultEnv EXCEPT !.lstm_class = c, !.lstm_confidence = f] :
            c \in 0..4, f \in ConfidenceSamples}

\* the point classifier gives 0.7496 for a single day: just below the 0.75
\* threshold, 0.75 when rounded to 3 decimals
JustBelowEnv == [DefaultEnv EXCEPT !.probabilities = <<7496>>]

\* what the scaler and the point classifier do on n days
FallEnvs(n) ==
    {[DefaultEnv EXCEPT !.scaler_raises = TRUE],
     [DefaultEnv EXCEPT !.classifier_raises = TRUE]}
    \cup {[DefaultEnv EXCEPT !.probabilities = p] :
            p \in [1..n -> ProbabilitySamples]}
    \cup (IF n = 1 THEN {JustBelowEnv} ELSE {})

\* the bodies get_json() can return
Payloads(samples) ==
    {[json |-> j, features |-> << >>] : j \in {"null", "empty", "nokey"}}
    \cup {[json |-> "features", features |-> fl] : fl \in FeatureLists(samples)}

\* two days of mood observations whose weighted flag score is 2 x 1.4 +
\* 2 x 1.2 + 0.8 = 6.0: confusion, withdrawn and happy on the first day,
\* confusion and withdrawn on the second
ConfusedWithdrawnObs ==
    [DefaultObs EXCEPT !.confusion_flag = TRUE, !.withdrawn_flag = TRUE]
ThresholdDays ==
    [json |-> "features",
     features |-> <<[ConfusedWithdrawnObs EXCEPT !.happy_flag = TRUE],
                    ConfusedWithdrawnObs>>]

\* six days of medication observations: refusals in the morning, in the
\* evening, in the afternoon, without time and reason, and at night, with an
\* accepted dose on the second day
RefusalLog ==
    [json |-> "features",
     features |-> <<RefusedObs, DefaultObs, EveningObs, AfternoonObs,
                    SilentRefusalObs, NightObs>>]

\* a week of medication observations, the dose refused on 5 of the 7 days
RefusedWeek ==
    [json |-> "features",
     features |-> [day \in 1..7 |->
                      IF day \in {3, 5} THEN DefaultObs ELSE RefusedObs]]

IdleRequest == [ep |-> "idle", data |-> [json |-> "null", features |-> << >>],
                env |-> DefaultEnv]
NoResponse == [BlankResponse EXCEPT !.status = 0]

Idle == req = IdleRequest
Done == req.ep \in {"fall", "mood", "medication"}

(***************************************************************************)
(* The sequential service: one request at a time                           *)
(***************************************************************************)
Bump(n, failed) ==
    IF failed /\ n < MaxFailures THEN n + 1 ELSE n

Serve(ep, data, env, outcome) ==
    /\ req' = [ep |-> ep, data |-> data, env |-> env]
    /\ resp' = outcome.resp
    /\ calls' = outcome.calls
    /\ lstm_failures' = Bump(lstm_failures, outcome.lstm_failed)
    /\ UNCHANGED <<boot, models, health, slots, units>>

\* POST /fall/predict
PredictFallRisk ==
    /\ ServerListening
    /\ Idle /\ health = NoReport
    /\ \E data \in Payloads(FallSamples) :
         \E env \in (IF data.json = "features" /\ Len(data.features) > 0
                     THEN FallEnvs(Len(data.features)) ELSE {DefaultEnv}) :
            Serve("fall", data, env, predict_fall_risk(data, env))

\* POST /mood/predict
PredictMood ==
    /\ ServerListening
    /\ Idle /\ health = NoReport
    /\ \E data \in Payloads(MoodSamples) \cup {ThresholdDays} :
         \E env \in (IF data.json = "features" /\ Len(data.features) > 0
                     THEN LstmEnvs ELSE {DefaultEnv}) :
            Serve("mood", data, env, predict_mood(data, env))

\* POST /medication/adherence
AnalyzeMedicationAdherence ==
    /\ ServerListening
    /\ Idle /\ health = NoReport
    /\ \E data \in Payloads(MedicationSamples) \cup {RefusedWeek, RefusalLog} :
         \E env \in (IF data.json = "features" /\ Len(data.features) > 0
                     THEN LstmEnvs ELSE {DefaultEnv}) :
            Serve("medication", data, env,
                  analyze_medication_adherence(data, env))

\* GET /health
HealthCheck ==
    /\ ServerListening
    /\ Idle /\ health = NoReport
    /\ health' = health_check
    /\ UNCHANGED <<boot, models, req, resp, calls, lstm_failures, slots, units>>

\* GET /metrics
GetMetrics ==
    /\ ServerListening
    /\ Idle /\ health = NoReport
    /\ health' = get_metrics
    /\ UNCHANGED <<boot, models, req, resp, calls, lstm_failures, slots, units>>

\* the response is returned and the request context is gone; the next
\* request starts from the module globals only
ResponseSent ==
    /\ Done \/ health # NoReport
    /\ req' = IdleRequest
    /\ resp' = NoResponse
    /\ calls' = {}
    /\ health' = NoReport
    /\ UNCHANGED <<boot, models, lstm_failures, slots, units>>

NoSlots == << >>
NoRun == [pc |-> "off"]
UnitsAtRest == windower = NoRun /\ scorer = NoRun /\ generator = NoRun

Init ==
    /\ boot = "import"
    /\ fall_model = "undef"
    /\ fall_scaler = "undef"
    /\ mood_lstm_model = "undef"
    /\ mood_scaler_info = "undef"
    /\ medication_lstm_model = "undef"
    /\ medication_scaler_info = "undef"
    /\ req = IdleRequest
    /\ resp = NoResponse
    /\ calls = {}
    /\ lstm_failures = 0
    /\ health = NoReport
    /\ slots = NoSlots
    /\ UnitsAtRest

Next ==
    \/ StartInitializeModels
    \/ StartLoadFall
    \/ StartLoadMood
    \/ StartLoadMoodScaler
    \/ StartLoadMedication
    \/ StartLoadMedicationScaler
    \/ AppRun
    \/ PredictFallRisk
    \/ PredictMood
    \/ AnalyzeMedicationAdherence
    \/ HealthCheck
    \/ GetMetrics
    \/ ResponseSent

Spec == Init /\ [][Next]_vars

(***************************************************************************)
(* Properties of the sequential service                                    *)
(***************************************************************************)
Sequence == req.ep \in {"mood", "medication"}
HasObservations == req.data.json = "features" /\ Len(req.data.features) > 0
EmptyList == req.data.json = "features" /\ Len(req.data.features) = 0
SequenceModel ==
    IF req.ep = "mood" THEN mood_lstm_model ELSE medication_lstm_model
Extractor ==
    IF req.ep = "mood" THEN "extract_mood_features_for_lstm"
    ELSE "extract_medication_features_for_lstm"
Predictor ==
    IF req.ep = "mood" THEN "mood_lstm_model.predict"
    ELSE "medication_lstm_model.predict"

\* the classifier block of the request in req raised
BlockFailed ==
    /\ Done /\ Sequence /\ HasObservations
    /\ IF req.ep = "mood" THEN MoodLstm(req.data.features, req.env).failed
       ELSE MedicationLstm(req.data.features, req.env).failed

\* what rule-based scoring gives for the request in req
RuleConcern ==
    IF req.ep = "mood"
    THEN MoodRuleRisk(MoodFlagsCount(req.data.features),
                      SeveritySequence(req.data.features))
    ELSE MedicationRuleConcern(CountIf(req.data.features, "medication_refused"),
                               Len(req.data.features))

\* the rule-based path of the request in req raises itself
RulePathRaises ==
    IF req.ep = "mood"
    THEN \/ MoodTrackingRaises(req.data.features)
         \/ MoodStatisticsRaise(SeveritySequence(req.data.features))
    ELSE MedicationTrackingRaises(req.data.features)

RulePathMessage ==
    IF \E i \in 1..Len(req.data.features) : ~req.data.features[i].mapping
    THEN MsgNotMapping ELSE MsgNoneMean

NoResultFields == \A f \in ResultFields : resp[f] = BlankResponse[f]

\* C1 (as claimed): whenever the classifier block of a mood or medication
\* request raises, the request is answered with a success response carrying
\* the rule-based concern level and label.
C1_Original ==
    BlockFailed =>
        /\ resp.status = 200
        /\ resp.tier = RuleConcern[1]
        /\ resp.label = RuleConcern[2]

\* C1 (amended): whenever the classifier block of a mood or medication
\* request raises, the request goes on with rule-based scoring: if that path
\* does not raise on the same input the response is a success carrying the
\* rule-based concern level and label and naming the rule-based analyzer,
\* otherwise it is a 500 carrying the message of the rule-based path's own
\* exception.
C1_Amended ==
    BlockFailed =>
        IF RulePathRaises
        THEN /\ resp.status = 500
             /\ resp.error = RulePathMessage
             /\ NoResultFields
        ELSE /\ resp.status = 200
             /\ resp.error = Absent
             /\ resp.tier = RuleConcern[1]
             /\ resp.label = RuleConcern[2]
             /\ resp.model \in {"Rule_Based_Mood_Analyzer",
                                "Rule_Based_Adherence_Analyzer"}

\* a medication request of three refusals whose classifier raised and which
\* was answered with the rule-based level
C1_Witness ==
    /\ BlockFailed
    /\ req.ep = "medication"
    /\ req.env.lstm_raises
    /\ ~RulePathRaises
    /\ resp.status = 200
    /\ resp.tier = "critical"

\* C2: a mood or medication request invokes the sequence classifier only
\* with a loaded model and at least 3 observations; a response produced by
\* the classifier carries the level of a class in 0..3; a request with fewer
\* than 3 observations or without a loaded model never invokes the classifier
\* and every level it reports is the rule-based one.
C2_Eligibility ==
    (Done /\ Sequence) =>
        /\ (Predictor \in calls \/ Extractor \in calls) =>
              /\ SequenceModel = "loaded"
              /\ HasObservations
              /\ Len(req.data.features) >= 3
        /\ resp.model_note # Absent =>
              /\ Predictor \in calls
              /\ req.env.lstm_class \in 0..3
              /\ resp.tier = <<"low", "moderate", "high",
                               "critical">>[req.env.lstm_class + 1]
        /\ (HasObservations
            /\ (Len(req.data.features) < 3 \/ SequenceModel = "None")) =>
              /\ calls = {}
              /\ resp.status = 200 =>
                    /\ resp.tier = RuleConcern[1]
                    /\ resp.label = RuleConcern[2]

\* two observations with the model loaded, answered by the rules
C2_Witness ==
    /\ Done /\ Sequence /\ HasObservations
    /\ Len(req.data.features) = 2
    /\ SequenceModel = "loaded"
    /\ resp.status = 200
    /\ calls = {}

\* C3: whatever happened in earlier requests, a mood or medication request
\* with a loaded model and at least 3 observations enters the classifier
\* block (its extractor is called).
C3_Rechecked ==
    (Done /\ Sequence /\ HasObservations /\ Len(req.data.features) >= 3
     /\ SequenceModel = "loaded") => Extractor \in calls

\* a request answered by the classifier after earlier requests fell back
C3_Witness ==
    /\ Done /\ Sequence
    /\ lstm_failures >= 1
    /\ ~BlockFailed
    /\ resp.model_note # Absent

\* C4 (as claimed): on every endpoint and in every model-load state an empty
\* features list is answered with the success response of the
\* insufficient-data result.
C4_EmptyIsSuccess ==
    (Done /\ EmptyList) =>
        /\ resp.status = 200
        /\ resp.error = Absent
        /\ resp.tier \in {"no_data", "insufficient_data"}

\* C5 (as claimed): an empty features list reports the tier no_data or
\* insufficient_data, the mood response has risk_score 0 and a text holding
\* "Insufficient data", and nothing is invoked.
C5_EmptyResult ==
    (Done /\ EmptyList) =>
        /\ resp.tier \in {"no_data", "insufficient_data"}
        /\ req.ep = "mood" =>
              /\ resp.risk_score = 0
              /\ \E i \in 1..Len(resp.text) : resp.text[i] = "Insufficient data"
        /\ calls = {}

C7_FallUnavailable ==
    /\ (Done /\ req.ep = "fall" /\ HasObservations /\ fall_model = "None") =>
          /\ resp.status \in 500..599
          /\ resp.probability = AbsentNum
          /\ resp.tier = Absent
          /\ calls = {}
    /\ (health.route = "health" /\ fall_model = "None") =>
          health.fall = "not_loaded"

C7_Witness ==
    /\ Done /\ req.ep = "fall" /\ HasObservations
    /\ fall_model = "None"
    /\ resp.status = 500

\* the request in req raised outside the classifier block
RaisedOutside ==
    /\ Done /\ HasObservations
    /\ CASE req.ep = "fall" ->
               fall_model = "loaded" /\ FallLoop(req.data.features, req.env).raises
         [] req.ep = "mood" -> RulePathRaises
         [] req.ep = "medication" -> RulePathRaises

RaisedMessage ==
    IF req.ep = "fall" THEN FallLoop(req.data.features, req.env).msg
    ELSE RulePathMessage

\* C8: an exception outside the classifier block gives a 500 response that
\* holds the exception message and nothing else, and no response at all
\* carries an error next to a result field.
C8_CatchAll ==
    /\ RaisedOutside =>
          /\ resp.status = 500
          /\ resp.error = RaisedMessage
          /\ NoResultFields
    /\ (Done /\ resp.error # Absent) =>
          /\ resp.status \in {400, 500}
          /\ NoResultFields

\* the point classifier raised on the first day of a fall request
C8_Witness ==
    /\ RaisedOutside
    /\ req.ep = "fall"
    /\ req.env.classifier_raises
    /\ "fall_model.predict_proba" \in calls
    /\ resp.status = 500

\* C10: requests are handled only once start-up has finished; from then on
\* every model name is None or a loaded model, and none of them changes.
C10_LoadBarrier ==
    /\ [](((Done \/ health # NoReport) => boot = "serving")
          /\ (boot \in {"loaded", "serving"} =>
                \A i \in 1..Len(models) : models[i] \in {"None", "loaded"}))
    /\ [][(boot \in {"loaded", "serving"}) => (models' = models)]_vars

\* a request served with the fall model loaded and a sequence model not
C10_Witness ==
    /\ Done
    /\ boot = "serving"
    /\ fall_model = "loaded"
    /\ mood_lstm_model = "None"

(***************************************************************************)
(* The concurrent service: NSlots handler invocations in flight, each      *)
(* advancing one loop iteration at a time.  The counters of a handler      *)
(* (app.py:700-709, 1012-1016, 1218-1228) are locals of its invocation.    *)
(***************************************************************************)
ZeroAcc ==
    [refusal_count |-> 0, total_opportunities |-> 0,
     confusion |-> 0, agitation |-> 0, depression |-> 0, happy |-> 0,
     withdrawn |-> 0, severity_sequence |-> << >>, predictions |-> << >>]

NoLstm == [used |-> FALSE, failed |-> FALSE, calls |-> {},
           prediction |-> 0, confidence |-> 0]

FreeSlot ==
    [pc |-> "free", ep |-> "idle", data |-> IdleRequest.data,
     env |-> DefaultEnv, i |-> 0, lstm |-> NoLstm, acc |-> ZeroAcc,
     resp |-> NoResponse]

\* the frame holding the counters of invocation k: its own
AccOwner_global(k) == 1
AccOwner(k) == k

\* the inputs of the concurrent service: per endpoint two lists of MaxLen
\* observations, each with one behaviour of the models
AllDays(obs) == [json |-> "features", features |-> [i \in 1..MaxLen |-> obs]]
OddDays(obs) ==
    [json |-> "features",
     features |-> [i \in 1..MaxLen |-> IF i % 2 = 1 THEN obs ELSE DefaultObs]]

ConcurrentRequests ==
    {[ep |-> "medication", data |-> AllDays(RefusedObs),
      env |-> [DefaultEnv EXCEPT !.lstm_class = 0, !.lstm_confidence = 900]],
     [ep |-> "medication", data |-> OddDays(RefusedObs),
      env |-> [DefaultEnv EXCEPT !.lstm_raises = TRUE]],
     [ep |-> "mood", data |-> AllDays(DepressedObs),
      env |-> [DefaultEnv EXCEPT !.lstm_class = 0, !.lstm_confidence = 900]],
     [ep |-> "mood", data |-> OddDays(DepressedObs),
      env |-> [DefaultEnv EXCEPT !.lstm_raises = TRUE]],
     [ep |-> "fall", data |-> AllDays(DefaultObs),
      env |-> [DefaultEnv EXCEPT !.probabilities = [i \in 1..MaxLen |-> 1000]]],
     [ep |-> "fall", data |-> AllDays(DefaultObs),
      env |-> [DefaultEnv EXCEPT !.probabilities = [i \in 1..MaxLen |-> 7500]]]}

\* the response of the handler when nothing else runs
AloneResponse(ep, data, env) ==
    CASE ep = "fall" -> predict_fall_risk(data, env).resp
      [] ep = "mood" -> predict_mood(data, env).resp
      [] ep = "medication" -> analyze_medication_adherence(data, env).resp

\* app.py:682-709, 966-1016, 1171-1228: the guards, the classifier block and
\* the initialisation of the counters
Begin(k) ==
    /\ ServerListening
    /\ slots[k].pc = "free"
    /\ \E r \in ConcurrentRequests :
         LET early ==
                 \/ MissingFeatures(r.data)
                 \/ r.ep = "fall" /\ fall_model = "None"
                 \/ Len(r.data.features) = 0
             lstm == CASE r.ep = "mood" -> MoodLstm(r.data.features, r.env)
                       [] r.ep = "medication" ->
                              MedicationLstm(r.data.features, r.env)
                       [] OTHER -> NoLstm
         IN IF early THEN
                slots' = [slots EXCEPT ![k] =
                    [FreeSlot EXCEPT !.pc = "done", !.ep = r.ep,
                                     !.data = r.data, !.env = r.env,
                                     !.resp = AloneResponse(r.ep, r.data, r.env)]]
            ELSE
                slots' = [slots EXCEPT
                    ![k].pc = "loop", ![k].ep = r.ep, ![k].data = r.data,
                    ![k].env = r.env, ![k].i = 0, ![k].lstm = lstm,
                    ![k].resp = NoResponse,
                    ![AccOwner(k)].acc = ZeroAcc]
    /\ UNCHANGED <<boot, models, req, resp, calls, lstm_failures, health, units>>

\* one iteration of the medication loop, app.py:1018-1047
MedicationIteration(acc, features) ==
    [acc EXCEPT
        !.refusal_count = @ + (IF features.medication_refused THEN 1 ELSE 0),
        !.total_opportunities = @ + 1]

\* one iteration of the mood loop, app.py:1230-1256
MoodIteration(acc, features) ==
    [acc EXCEPT
        !.confusion = @ + (IF features.confusion_flag THEN 1 ELSE 0),
        !.agitation = @ + (IF features.agitation_flag THEN 1 ELSE 0),
        !.depression = @ + (IF features.depression_flag THEN 1 ELSE 0),
        !.happy = @ + (IF features.happy_flag THEN 1 ELSE 0),
        !.withdrawn = @ + (IF features.withdrawn_flag THEN 1 ELSE 0),
        !.severity_sequence =
            IF features.has_mood_change
            THEN Append(@, features.mood_severity) ELSE @]

\* the exception one iteration raises, Absent when it raises none
IterationError(ep, features, env) ==
    IF ep = "fall" THEN
        IF ~features.mapping THEN MsgNotMapping
        ELSE IF FallExtractRaises(features) THEN MsgNoneFloat
        ELSE IF fall_scaler # "loaded" \/ env.scaler_raises THEN MsgScaler
        ELSE IF env.classifier_raises THEN MsgClassifier
        ELSE Absent
    ELSE IF ~features.mapping THEN MsgNotMapping ELSE Absent

\* one iteration of the loop of invocation k
Iterate(k) ==
    /\ slots[k].pc = "loop"
    /\ slots[k].i < Len(slots[k].data.features)
    /\ LET me == slots[k]
           features == me.data.features[me.i + 1]
           error == IterationError(me.ep, features, me.env)
           acc == slots[AccOwner(k)].acc
       IN IF error # Absent THEN
              slots' = [slots EXCEPT ![k].pc = "done",
                                     ![k].resp = ErrorResponse(500, error)]
          ELSE
              slots' = [slots EXCEPT
                  ![AccOwner(k)].acc =
                      CASE me.ep = "medication" ->
                               MedicationIteration(acc, features)
                        [] me.ep = "mood" -> MoodIteration(acc, features)
                        [] me.ep = "fall" ->
                               [acc EXCEPT !.predictions =
                                   Append(@, me.env.probabilities[me.i + 1])],
                  ![k].i = @ + 1]
    /\ UNCHANGED <<boot, models, req, resp, calls, lstm_failures, health, units>>

\* after the loop: statistics, level, recommendations, response
Finish(k) ==
    /\ slots[k].pc = "loop"
    /\ slots[k].i = Len(slots[k].data.features)
    /\ LET me == slots[k]
           acc == slots[AccOwner(k)].acc
           fl == me.data.features
       IN slots' = [slots EXCEPT
              ![k].pc = "done",
              ![k].resp =
                  CASE me.ep = "medication" ->
                           MedicationFinish(fl, me.lstm, acc.refusal_count,
                                            acc.total_opportunities)
                    [] me.ep = "mood" ->
                           MoodFinish(fl, me.lstm,
                               [confusion |-> acc.confusion,
                                agitation |-> acc.agitation,
                                depression |-> acc.depression,
                                happy |-> acc.happy,
                                withdrawn |-> acc.withdrawn],
                               acc.severity_sequence)
                    [] me.ep = "fall" -> FallFinish(fl, acc.predictions)]
    /\ UNCHANGED <<boot, models, req, resp, calls, lstm_failures, health, units>>

\* the response of invocation k is returned
Release(k) ==
    /\ slots[k].pc = "done"
    /\ slots' = [slots EXCEPT ![k] = FreeSlot]
    /\ UNCHANGED <<boot, models, req, resp, calls, lstm_failures, health, units>>

InitConcurrent ==
    /\ boot = "import"
    /\ fall_model = "undef"
    /\ fall_scaler = "undef"
    /\ mood_lstm_model = "undef"
    /\ mood_scaler_info = "undef"
    /\ medication_lstm_model = "undef"
    /\ medication_scaler_info = "undef"
    /\ req = IdleRequest
    /\ resp = NoResponse
    /\ calls = {}
    /\ lstm_failures = 0
    /\ health = NoReport
    /\ slots = [k \in 1..NSlots |-> FreeSlot]
    /\ UnitsAtRest

BeginRequest == \E k \in 1..NSlots : Begin(k)
IterateRequest == \E k \in 1..NSlots : Iterate(k)
FinishRequest == \E k \in 1..NSlots : Finish(k)
ReleaseRequest == \E k \in 1..NSlots : Release(k)

NextConcurrent ==
    \/ StartInitializeModels
    \/ StartLoadFall
    \/ StartLoadMood
    \/ StartLoadMoodScaler
    \/ StartLoadMedication
    \/ StartLoadMedicationScaler
    \/ AppRun
    \/ BeginRequest
    \/ IterateRequest
    \/ FinishRequest
    \/ ReleaseRequest

SpecConcurrent == InitConcurrent /\ [][NextConcurrent]_vars

\* C9: under every interleaving of the requests in flight, the response of
\* each finished request is the response its handler gives when run alone on
\* the same body with the same model behaviour.
C9_Independent ==
    \A k \in 1..NSlots :
        slots[k].pc = "done" =>
            slots[k].resp =
                AloneResponse(slots[k].ep, slots[k].data, slots[k].env)

\* a medication request of refusals finished, rule-based, while another
\* medication request with fewer refusals was in the middle of its loop
C9_Witness ==
    \E k, j \in 1..NSlots :
        /\ k # j
        /\ slots[k].pc = "done" /\ slots[k].ep = "medication"
        /\ slots[k].resp.status = 200
        /\ slots[k].resp.model = "Rule_Based_Adherence_Analyzer"
        /\ slots[k].acc.refusal_count = MaxLen
        /\ slots[j].pc = "loop" /\ slots[j].ep = "medication"
        /\ slots[j].i > 1
        /\ slots[j].acc.refusal_count < slots[j].i

(***************************************************************************)
(* The feature extractors on their own: every list of up to MaxDays        *)
(* observations is handed to one of the two extractors                     *)
(***************************************************************************)
MaxDays == 8         \* longest list handed to an extractor

ServiceNotStarted ==
    /\ boot = "import"
    /\ fall_model = "undef"
    /\ fall_scaler = "undef"
    /\ mood_lstm_model = "undef"
    /\ mood_scaler_info = "undef"
    /\ medication_lstm_model = "undef"
    /\ medication_scaler_info = "undef"
    /\ req = IdleRequest
    /\ resp = NoResponse
    /\ calls = {}
    /\ lstm_failures = 0
    /\ health = NoReport
    /\ slots = NoSlots

\* the last day of a mood list: every combination of the five flags at
\* severity 3, an explicit sleep / appetite issue, a null severity, a
\* non-object; the days before it: nothing set, or depression
FlagObs ==
    {[DefaultObs EXCEPT !.confusion_flag = c, !.agitation_flag = a,
                        !.depression_flag = d, !.happy_flag = h,
                        !.withdrawn_flag = w, !.mood_severity = 3] :
        c \in BOOLEAN, a \in BOOLEAN, d \in BOOLEAN, h \in BOOLEAN,
        w \in BOOLEAN}
SleepIssueObs == [DefaultObs EXCEPT !.sleep_issue = TRUE,
                                    !.appetite_issue = TRUE,
                                    !.mood_severity = 1]
MoodLastSamples == FlagObs \cup {SleepIssueObs, NullSeverityObs, NotAMapping}
MoodEarlierSamples == {DefaultObs, DepressedObs}

\* the last day of a medication list: nothing set, a refusal at 8am because
\* of nausea, a refusal at "9 PM" because "Confused", a null time, a
\* non-object; the days before it: nothing set, or the 8am refusal
MedicationLastSamples ==
    {DefaultObs, RefusedObs, EveningObs, NullTimeObs, NotAMapping}
MedicationEarlierSamples == {DefaultObs, RefusedObs}

WindowLists(earlier, last) ==
    {<< >>} \cup
    UNION {{Append(f, l) : f \in [1..(n - 1) -> earlier], l \in last} :
              n \in 1..MaxDays}

NoResult == Returned(<< >>)

Called(extractor, features_list) ==
    [pc |-> "called", extractor |-> extractor,
     features_list |-> features_list, result |-> NoResult]

\* a call of extract_mood_features_for_lstm, app.py:840-893
ExtractMoodFeaturesForLstm ==
    /\ windower.pc = "called"
    /\ windower.extractor = "mood"
    /\ windower' =
           [windower EXCEPT
               !.pc = "returned",
               !.result = extract_mood_features_for_lstm(
                              windower.features_list)]
    /\ UNCHANGED <<service, scorer, generator>>

\* a call of extract_medication_features_for_lstm, app.py:896-955
ExtractMedicationFeaturesForLstm ==
    /\ windower.pc = "called"
    /\ windower.extractor = "medication"
    /\ windower' =
           [windower EXCEPT
               !.pc = "returned",
               !.result = extract_medication_features_for_lstm(
                              windower.features_list)]
    /\ UNCHANGED <<service, scorer, generator>>

InitWindower ==
    /\ ServiceNotStarted
    /\ scorer = NoRun
    /\ generator = NoRun
    /\ \/ \E fl \in WindowLists(MoodEarlierSamples, MoodLastSamples) :
             windower = Called("mood", fl)
       \/ \E fl \in WindowLists(MedicationEarlierSamples,
                                MedicationLastSamples) :
             windower = Called("medication", fl)

NextWindower ==
    \/ ExtractMoodFeaturesForLstm
    \/ ExtractMedicationFeaturesForLstm

SpecWindower == InitWindower /\ [][NextWindower]_vars

\* the extractor returned an array for a list of at least / at most so many
\* days
Windowed(lo, hi) ==
    /\ windower.pc = "returned"
    /\ ~windower.result.raised
    /\ Len(windower.features_list) >= lo
    /\ Len(windower.features_list) <= hi

\* the encoded vector of the day-th observation (1-based) of the input
Encoded(day) ==
    IF windower.extractor = "mood"
    THEN MoodDayFeatures(windower.features_list[day])
    ELSE MedicationDayFeatures(windower.features_list, day - 1)

Width == IF windower.extractor = "mood" THEN 10 ELSE 11

\* C11: for every list of 7 or more observations the windowed sequence of
\* either extractor has exactly 7 rows, the encoded vectors of the last 7
\* observations in their original order.
C11_LastSeven ==
    Windowed(7, MaxDays + 1) =>
        LET L == Len(windower.features_list)
            out == windower.result.sequence
        IN /\ Len(out) = 7
           /\ \A k \in 1..7 : out[k] = Encoded(L - 7 + k)

\* a medication list of more than 7 days whose first day, a refusal, is
\* dropped and whose window starts with an accepted dose
C11_Witness ==
    /\ Windowed(8, MaxDays + 1)
    /\ windower.extractor = "medication"
    /\ windower.features_list[1].medication_refused
    /\ windower.result.sequence[1][1] = 0
    /\ windower.result.sequence[7][1] = 1

\* C12: for every list of L < 7 observations the windowed sequence has
\* exactly 7 rows: first 7 - L all-zero rows of the domain width (10 mood, 11
\* medication), then the L encoded vectors of the input in original order.
C12_LeftPadded ==
    Windowed(0, 6) =>
        LET L == Len(windower.features_list)
            out == windower.result.sequence
        IN /\ Len(out) = 7
           /\ \A k \in 1..7 : Len(out[k]) = Width
           /\ \A k \in 1..(7 - L) : \A i \in 1..Width : out[k][i] = 0
           /\ \A k \in 1..L : out[7 - L + k] = Encoded(k)

\* a mood list of 3 days, depression on the first only: four zero rows, then
\* the depression row
C12_Witness ==
    /\ Windowed(3, 3)
    /\ windower.extractor = "mood"
    /\ windower.features_list[1].depression_flag
    /\ ~windower.features_list[3].depression_flag
    /\ windower.result.sequence[4][3] = 0
    /\ windower.result.sequence[5][3] = 1

\* C17: for every non-empty list, whatever its length, the last row of the
\* windowed sequence carries in its flag columns exactly the truth values of
\* the boolean fields of the last observation (mood: confusion, agitation,
\* depression, happy, withdrawn; medication: refused).
C17_FlagsRoundTrip ==
    Windowed(1, MaxDays + 1) =>
        LET last == windower.features_list[Len(windower.features_list)]
            row == windower.result.sequence[Len(windower.result.sequence)]
        IN IF windower.extractor = "mood" THEN
               /\ row[1] = (IF last.confusion_flag THEN 1 ELSE 0)
               /\ row[2] = (IF last.agitation_flag THEN 1 ELSE 0)
               /\ row[3] = (IF last.depression_flag THEN 1 ELSE 0)
               /\ row[4] = (IF last.happy_flag THEN 1 ELSE 0)
               /\ row[5] = (IF last.withdrawn_flag THEN 1 ELSE 0)
           ELSE row[1] = (IF last.medication_refused THEN 1 ELSE 0)

\* a truncated mood list whose last day is happy and confused, but neither
\* agitated, depressed nor withdrawn
C17_Witness ==
    /\ Windowed(8, MaxDays + 1)
    /\ windower.extractor = "mood"
    /\ LET last == windower.features_list[Len(windower.features_list)]
       IN /\ last.happy_flag /\ last.confusion_flag
          /\ ~last.agitation_flag /\ ~last.depression_flag
          /\ ~last.withdrawn_flag
    /\ windower.result.sequence[7][4] = 1

(***************************************************************************)
(* The fall-score arithmetic on its own, app.py:744-777: from the per-day  *)
(* probabilities of one call to the final probability, trend and tier      *)
(***************************************************************************)
MaxScored == 5       \* longest list of per-day probabilities

\* per-day probabilities of the longer lists, 1/10000
ScoreSamples == {1000, 2000, 7500}

\* one day with every probability of the scale, and every longer list over
\* the samples
ScoreInputs ==
    {<<q>> : q \in 0..10000}
    \cup UNION {[1..n -> ScoreSamples] : n \in 2..MaxScored}

Predicted(predictions) ==
    [pc |-> "predicted", predictions |-> predictions,
     fall_risk_probability |-> AbsentNum, trend |-> Absent,
     risk_level |-> Absent, risk_label |-> Absent]

\* app.py:745-760: weighted average, trend, clip
ScoreEnsemble ==
    /\ scorer.pc = "predicted"
    /\ scorer' =
           [scorer EXCEPT
               !.pc = "averaged",
               !.fall_risk_probability =
                   Clip(WeightedAverage(scorer.predictions)),
               !.trend = Trend(scorer.predictions)]
    /\ UNCHANGED <<service, windower, generator>>

\* app.py:763-777: the tier of the final probability
ScoreTier ==
    /\ scorer.pc = "averaged"
    /\ scorer' =
           [scorer EXCEPT
               !.pc = "tiered",
               !.risk_level = FallRiskLevel(scorer.fall_risk_probability)[1],
               !.risk_label = FallRiskLevel(scorer.fall_risk_probability)[2]]
    /\ UNCHANGED <<service, windower, generator>>

InitScorer ==
    /\ ServiceNotStarted
    /\ windower = NoRun
    /\ generator = NoRun
    /\ \E predictions \in ScoreInputs : scorer = Predicted(predictions)

NextScorer ==
    \/ ScoreEnsemble
    \/ ScoreTier

SpecScorer == InitScorer /\ [][NextScorer]_vars

Averaged == scorer.pc \in {"averaged", "tiered"}
Tiered == scorer.pc = "tiered"

\* C13: every final probability p in [0, 1] has exactly one tier, with
\* closed lower and open upper bounds: p >= 0.75 very_high/CRITICAL,
\* 0.50 <= p < 0.75 high/HIGH, 0.30 <= p < 0.50 moderate/MODERATE,
\* 0.15 <= p < 0.30 low_moderate/LOW-MODERATE, p < 0.15 low/LOW.
C13_Tiers ==
    Tiered =>
        LET q == scorer.fall_risk_probability
            tier == <<scorer.risk_level, scorer.risk_label>>
        IN /\ q >= 0 /\ q <= 10000
           /\ (q >= 7500) <=> (tier = <<"very_high", "CRITICAL">>)
           /\ (q >= 5000 /\ q < 7500) <=> (tier = <<"high", "HIGH">>)
           /\ (q >= 3000 /\ q < 5000) <=> (tier = <<"moderate", "MODERATE">>)
           /\ (q >= 1500 /\ q < 3000)
                  <=> (tier = <<"low_moderate", "LOW-MODERATE">>)
           /\ (q < 1500) <=> (tier = <<"low", "LOW">>)

\* a final probability of exactly 0.75 is in the top tier
C13_Witness ==
    /\ Tiered
    /\ scorer.fall_risk_probability = 7500
    /\ scorer.risk_level = "very_high"

\* smallest / largest element of a non-empty sequence of numbers
Smallest(ps) == CHOOSE x \in {ps[i] : i \in 1..Len(ps)} :
                    \A i \in 1..Len(ps) : x <= ps[i]
Largest(ps) == CHOOSE x \in {ps[i] : i \in 1..Len(ps)} :
                    \A i \in 1..Len(ps) : x >= ps[i]

\* C18: within one call the weight of index i is exp(0.35 i) (1 at index 0,
\* each next weight exp(0.35) = 1.419 times the one before, to the third
\* decimal), so a later index weighs strictly more; the final probability is
\* the weight-normalised average of the per-day probabilities, between
\* their minimum and maximum, and inside [0, 1].
C18_RecencyWeights ==
    Averaged =>
        LET ps == scorer.predictions
            n == Len(ps)
            q == scorer.fall_risk_probability
        IN /\ Weights[1] = 1000
           /\ \A i \in 1..(n - 1) :
                 /\ Weights[i + 1] * 1000 >= Weights[i] * 1418
                 /\ Weights[i + 1] * 1000 <= Weights[i] * 1420
           /\ \A i, j \in 1..n : i < j => Weights[j] > Weights[i]
           /\ q * WeightSum(n) <= WeightedSum(ps, n)
           /\ (q + 1) * WeightSum(n) > WeightedSum(ps, n)
           /\ Smallest(ps) <= q /\ q <= Largest(ps)
           /\ q >= 0 /\ q <= 10000

\* 0.1, 0.1, 0.75: the last day pulls the result to 0.3953, above the plain
\* mean 0.3167
C18_Witness ==
    /\ Averaged
    /\ scorer.predictions = <<1000, 1000, 7500>>
    /\ scorer.fall_risk_probability = 3953

\* the trend as the claim words it: recent is the mean of the last 3,
\* earlier the mean of all values before the last 3; with exactly 3 values
\* there is none before them, the mean of nothing is not a number and no
\* comparison with it holds
ClaimedTrend(ps) ==
    LET n == Len(ps) IN
    IF n < 3 THEN "insufficient_data"
    ELSE IF n = 3 THEN "stable"
    ELSE LET recent == SeqSum(SubSeq(ps, n - 2, n))
             earlier == SeqSum(SubSeq(ps, 1, n - 3))
             m == n - 3
         IN IF recent * m - 3 * earlier > 3 * m * 1000 THEN "increasing"
            ELSE IF recent * m - 3 * earlier < 0 - 3 * m * 1000
                 THEN "decreasing"
            ELSE "stable"

\* C20 as stated: the trend of 3 or more days compares the mean of the last
\* 3 with the mean of the days before the last 3.
C20_Original ==
    Averaged => scorer.trend = ClaimedTrend(scorer.predictions)

\* C20, amended: 1 or 2 days give "insufficient_data"; with exactly 3 days
\* the mean of the 3 is compared with the first of them; with 4 or more the
\* mean of the last 3 is compared with the mean of all days before them;
\* "increasing" if recent - earlier > 0.1, "decreasing" if < -0.1, otherwise
\* "stable".
C20_Amended ==
    Averaged =>
        LET ps == scorer.predictions
            n == Len(ps)
            recent == SeqSum(SubSeq(ps, n - 2, n))
            m == IF n = 3 THEN 1 ELSE n - 3
            earlier == IF n = 3 THEN ps[1] ELSE SeqSum(SubSeq(ps, 1, n - 3))
            diff == recent * m - 3 * earlier
        IN IF n < 3 THEN scorer.trend = "insufficient_data"
           ELSE /\ (diff > 3 * m * 1000) <=> (scorer.trend = "increasing")
                /\ (diff < 0 - 3 * m * 1000) <=> (scorer.trend = "decreasing")
                /\ (diff >= 0 - 3 * m * 1000 /\ diff <= 3 * m * 1000)
                       <=> (scorer.trend = "stable")

\* exactly 3 days, 0.1, 0.1, 0.75: their mean 0.3167 against the first day
\* 0.1 is "increasing"
C20_Witness ==
    /\ Averaged
    /\ scorer.predictions = <<1000, 1000, 7500>>
    /\ scorer.trend = "increasing"

(***************************************************************************)
(* Further properties of the sequential service                            *)
(***************************************************************************)
\* a request with observations was scored: a success response with a tier
Scored == Done /\ HasObservations /\ resp.status = 200

\* the recommendation table of the reported tier
Table ==
    CASE req.ep = "fall" -> FallRecommendations(resp.tier)
      [] req.ep = "mood" -> MoodRecommendations(resp.tier)
      [] req.ep = "medication" -> MedicationRecommendations(resp.tier)

\* C14: the recommendations of every success response of the three
\* endpoints are at most 3, and they are the first 3 entries, in table
\* order, of the table of the reported tier, whatever its length.
C14_TopThree ==
    /\ (Done /\ resp.status = 200) => Len(resp.recommendations) <= 3
    /\ Scored =>
          /\ Len(Table) \in {3, 4, 5}
          /\ Len(resp.recommendations) = 3
          /\ \A i \in 1..3 : resp.recommendations[i] = Table[i]

\* a fall response of the top tier, whose table has 5 entries
C14_Witness ==
    /\ Scored
    /\ req.ep = "fall"
    /\ resp.tier = "very_high"
    /\ Len(FallRecommendations(resp.tier)) = 5
    /\ resp.recommendations =
           <<"Immediate intervention required",
             "Implement fall prevention protocol",
             "Consider 1:1 supervision">>

\* a medication request was scored; its refusal and day counts
MedicationScored == Scored /\ req.ep = "medication"
Refusals == CountIf(req.data.features, "medication_refused")
Days == Len(req.data.features)
BelowHalf == (Days - Refusals) * 2 < Days

\* C15 as stated: 7 days with 5 refusals are answered with adherence_rate
\* 28.6 and concern_level "critical", and every medication response with
\* an adherence rate below 50% has concern_level "critical", whether or not
\* the sequence classifier is loaded.
C15_Original ==
    MedicationScored =>
        /\ (Days = 7 /\ Refusals = 5) =>
              (resp.adherence_rate = 286 /\ resp.tier = "critical")
        /\ BelowHalf => resp.tier = "critical"

\* C15, amended: 7 days with 5 refusals are answered with adherence_rate
\* 28.6; a response scored by the rules (classifier not loaded, fewer than
\* 3 days, or the classifier block raised) with an adherence rate below 50%
\* has concern_level "critical"; a response scored by the classifier has
\* the level of the predicted class, whatever the adherence rate.
C15_Amended ==
    MedicationScored =>
        /\ (Days = 7 /\ Refusals = 5) => resp.adherence_rate = 286
        /\ resp.model \in {"Rule_Based_Adherence_Analyzer",
                           "LSTM_Temporal_Adherence_Analyzer"}
        /\ (resp.model = "Rule_Based_Adherence_Analyzer")
              <=> (medication_lstm_model = "None" \/ Days < 3 \/ BlockFailed)
        /\ (resp.model = "Rule_Based_Adherence_Analyzer" /\ BelowHalf)
              => resp.tier = "critical"
        /\ (resp.model = "LSTM_Temporal_Adherence_Analyzer")
              => resp.tier =
                    <<"low", "moderate", "high", "critical">>
                        [req.env.lstm_class + 1]

\* the week with 5 refusals, scored by the rules: 28.6 and critical
C15_Witness ==
    /\ MedicationScored
    /\ Days = 7 /\ Refusals = 5
    /\ resp.model = "Rule_Based_Adherence_Analyzer"
    /\ resp.adherence_rate = 286
    /\ resp.tier = "critical"

\* C19: an empty observation list is answered by the fall endpoint with
\* probability 0.0 and trend "no_data", and no model is invoked.
C19_EmptyFall ==
    (Done /\ req.ep = "fall" /\ EmptyList) =>
        /\ resp.probability = 0
        /\ resp.trend = "no_data"
        /\ calls = {}

(***************************************************************************)
(* The synthetic data generator,                                           *)
(* src/ai-models/training_data/generate_synthetic_data.py                  *)
(*                                                                         *)
(* The rows are taken in the order of idx_sorted (nearest to p_now = 0.5   *)
(* first).  In that order the column fell_within_30_days is a sequence of  *)
(* runs [label, count]: count consecutive rows carrying the same label.    *)
(* Rates are compared exactly: rate < 0.28 is positives * 100 < 28 * n.    *)
(***************************************************************************)
default_n == 2000000
target_future_rate == 32       \* 0.32, in 1/100

RECURSIVE Positives(_)
\* fell_within_30_days.sum(), line 218
Positives(runs) ==
    IF runs = << >> THEN 0
    ELSE (IF Head(runs).label = 1 THEN Head(runs).count ELSE 0)
             + Positives(Tail(runs))

RECURSIVE FlipNearest(_, _, _)
\* no label is changed
FlipNearest_untouched(runs, from, k) == runs
\* lines 222-223 and 225-226: of the rows labelled `from`, the first k in
\* idx_sorted order (all of them when there are fewer) get the other label
FlipNearest(runs, from, k) ==
    IF runs = << >> \/ k = 0 THEN runs
    ELSE LET r == Head(runs) IN
         IF r.label # from THEN
             <<r>> \o FlipNearest(Tail(runs), from, k)
         ELSE IF r.count <= k THEN
             <<[label |-> 1 - from, count |-> r.count]>>
                 \o FlipNearest(Tail(runs), from, k - r.count)
         ELSE
             <<[label |-> 1 - from, count |-> k],
               [label |-> from, count |-> r.count - k]>> \o Tail(runs)

\* only as many labels are flipped as it takes to reach the nearer edge of
\* the band
Rebalanced_minimal(n, labels) ==
    LET current_pos == Positives(labels)
    IN IF current_pos * 100 < 28 * n THEN
           FlipNearest(labels, 0, (28 * n + 99) \div 100 - current_pos)
       ELSE IF current_pos * 100 > 35 * n THEN
           FlipNearest(labels, 1, current_pos - (35 * n) \div 100)
       ELSE labels
\* lines 213-226: the final rebalance of the labels of n rows
Rebalanced(n, labels) ==
    LET current_pos == Positives(labels)
        desired_pos == RoundHalfEven(target_future_rate * n, 100)
        delta == desired_pos - current_pos
    IN IF current_pos * 100 < 28 * n \/ current_pos * 100 > 35 * n THEN
           IF delta > 0 THEN FlipNearest(labels, 0, delta)
           ELSE IF delta < 0 THEN FlipNearest(labels, 1, 0 - delta)
           ELSE labels
       ELSE labels

(***************************************************************************)
(* A run of generate_fall_risk_dataset with the default arguments, from    *)
(* the labels left by the random draws and the label flips (lines 197-210) *)
(***************************************************************************)
MaxRuns == 3         \* most runs of equal labels in the drawn column

\* where a run may end: every 100000 rows, and next to the edges of the band
InteriorCuts ==
    {k * 100000 : k \in 1..19} \cup {559999, 700001}

\* the drawn columns: up to MaxRuns runs, alternating labels
DrawnLabels(n) ==
    UNION {{[i \in 1..r |->
                [label |-> (first + i - 1) % 2,
                 count |-> (IF i = r THEN n ELSE cuts[i])
                               - (IF i = 1 THEN 0 ELSE cuts[i - 1])]] :
              first \in {0, 1},
              cuts \in {c \in [1..(r - 1) -> InteriorCuts] :
                           \A i, j \in 1..(r - 1) : i < j => c[i] < c[j]}} :
           r \in 1..MaxRuns}

Labelled(n, labels) ==
    [pc |-> "labelled", n |-> n, drawn |-> labels,
     fell_within_30_days |-> labels, fell_within_30_days_rate |-> AbsentNum]

\* lines 212-226
Rebalance ==
    /\ generator.pc = "labelled"
    /\ generator' =
           [generator EXCEPT
               !.pc = "rebalanced",
               !.fell_within_30_days =
                   Rebalanced(generator.n, generator.fell_within_30_days)]
    /\ UNCHANGED <<service, windower, scorer>>

\* lines 228-279: the frame is assembled, the summary (rates rounded to 3
\* decimals, here in 1/1000) printed and the frame returned
ReturnDataset ==
    /\ generator.pc = "rebalanced"
    /\ generator' =
           [generator EXCEPT
               !.pc = "returned",
               !.fell_within_30_days_rate =
                   RoundHalfEven(
                       Positives(generator.fell_within_30_days) * 1000,
                       generator.n)]
    /\ UNCHANGED <<service, windower, scorer>>

InitGenerator ==
    /\ ServiceNotStarted
    /\ windower = NoRun
    /\ scorer = NoRun
    /\ \E labels \in DrawnLabels(default_n) :
          generator = Labelled(default_n, labels)

NextGenerator ==
    \/ Rebalance
    \/ ReturnDataset

SpecGenerator == InitGenerator /\ [][NextGenerator]_vars

\* C16: with the default arguments (n = 2,000,000, target 0.32) the rate of
\* fell_within_30_days = 1 in the returned dataset lies in [0.28, 0.35],
\* whatever labels the random draws and the label flips left.
C16_RateInBand ==
    generator.pc = "returned" =>
        LET positives == Positives(generator.fell_within_30_days)
        IN /\ generator.n = 2000000
           /\ positives * 100 >= 28 * generator.n
           /\ positives * 100 <= 35 * generator.n

\* the draws left one row short of 28% positives: the returned dataset has
\* 32%
C16_Witness ==
    /\ generator.pc = "returned"
    /\ Positives(generator.drawn) = 559999
    /\ Positives(generator.fell_within_30_days) = 640000
    /\ generator.fell_within_30_days_rate = 320

\* a medication request was scored by the rules
MedicationByRules ==
    MedicationScored /\ resp.model = "Rule_Based_Adherence_Analyzer"

MoodByRules ==
    Scored /\ req.ep = "mood" /\ resp.model = "Rule_Based_Mood_Analyzer"

\* the statistics of C22 in decimal arithmetic: the weighted flag days times
\* 10, and the severities of the days flagged has_mood_change
WeightedTenths ==
    LET fl == req.data.features IN
    15 * CountIf(fl, "depression_flag") + 14 * CountIf(fl, "confusion_flag")
    + 13 * CountIf(fl, "agitation_flag") + 12 * CountIf(fl, "withdrawn_flag")
    + 8 * CountIf(fl, "happy_flag")
ChangeSeverities ==
    {req.data.features[i].mood_severity :
        i \in {j \in 1..Len(req.data.features) :
                  req.data.features[j].has_mood_change}}
MaxSeverity ==
    IF ChangeSeverities = {} THEN 0
    ELSE CHOOSE x \in ChangeSeverities : \A y \in ChangeSeverities : x >= y
AvgSeverityAtLeast2 ==
    LET sq == SeveritySequence(req.data.features)
    IN sq # << >> /\ SeqSum(sq) >= 2 * Len(sq)

\* C22: on the mood rule-based path, with weighted = 1.5 depression days +
\* 1.4 confusion days + 1.3 agitation days + 1.2 withdrawn days + 0.8 happy
\* days and max / avg severity over the days flagged has_mood_change (0
\* without such a day), the tier is critical if max >= 4 or weighted >= 6,
\* else high if max >= 3 or weighted >= 4, else moderate if avg >= 2 or
\* weighted >= 2, else low.
C22_RuleTiers ==
    MoodByRules =>
        resp.tier =
            IF MaxSeverity >= 4 \/ WeightedTenths >= 60 THEN "critical"
            ELSE IF MaxSeverity >= 3 \/ WeightedTenths >= 40 THEN "high"
            ELSE IF AvgSeverityAtLeast2 \/ WeightedTenths >= 20 THEN "moderate"
            ELSE "low"

\* refused days among the 3 days ending with / ending before day (1-based)
\* of the input: the two ways to read "trailing 3-day lookback window"
TrailingRefusals(day) ==
    Cardinality({d \in 1..day :
                    /\ d >= day - 2
                    /\ windower.features_list[d].medication_refused})
PrecedingRefusals(day) ==
    Cardinality({d \in 1..(day - 1) :
                    /\ d >= day - 3
                    /\ windower.features_list[d].medication_refused})

\* C23: in the medication feature vector of day i, consecutive_refusals
\* (column 9) is the number of refused days in the trailing 3-day window,
\* counted only when day i itself is refused, divided by 3: one of 0, 1/3,
\* 2/3, 1, and 0 on every non-refused day.
C23_ConsecutiveRefusals ==
    (Windowed(1, MaxDays + 1) /\ windower.extractor = "medication") =>
        LET L == Len(windower.features_list)
            out == windower.result.sequence
        IN \A day \in 1..L :
              day > L - 7 =>
                 IF windower.features_list[day].medication_refused
                 THEN out[7 - L + day][9] \in
                          {Frac(TrailingRefusals(day), 3),
                           Frac(PrecedingRefusals(day), 3)}
                 ELSE out[7 - L + day][9] = 0

\* the column before and after the rebalancing step, row by row: both are
\* constant on every segment between two neighbouring run ends
RunEnd(runs, i) == SeqSum([k \in 1..i |-> runs[k].count])
RunEnds(runs) == {RunEnd(runs, i) : i \in 0..Len(runs)}
LabelAt(runs, row) ==
    runs[CHOOSE i \in 1..Len(runs) :
            RunEnd(runs, i - 1) < row /\ row <= RunEnd(runs, i)].label
SegmentEnds ==
    RunEnds(generator.drawn) \cup RunEnds(generator.fell_within_30_days)
\* a segment is named by its last row; its first row follows the end before
Segments == SegmentEnds \ {0}
FirstRow(seg) ==
    1 + CHOOSE e \in SegmentEnds :
            e < seg /\ \A f \in SegmentEnds : f < seg => f <= e
WasLabel(seg) == LabelAt(generator.drawn, seg)
IsFlipped(seg) ==
    LabelAt(generator.fell_within_30_days, seg) # WasLabel(seg)
RECURSIVE FlippedIn(_)
FlippedIn(segs) ==
    IF segs = {} THEN 0
    ELSE LET seg == CHOOSE s \in segs : TRUE
         IN (IF IsFlipped(seg) THEN seg - FirstRow(seg) + 1 ELSE 0)
            + FlippedIn(segs \ {seg})
FlippedRows == FlippedIn(Segments)

RebalanceDone == generator.pc \in {"rebalanced", "returned"}
DrawnPositives == Positives(generator.drawn)
DrawnInBand ==
    /\ DrawnPositives * 100 >= 28 * generator.n
    /\ DrawnPositives * 100 <= 35 * generator.n
\* flips go one way, and a row is only flipped when every row nearer to
\* p = 0.5 that carried the same label is flipped too
OneDirectionNearestFirst ==
    /\ \A s, t \in Segments :
          (IsFlipped(s) /\ IsFlipped(t)) => WasLabel(s) = WasLabel(t)
    /\ \A s, t \in Segments :
          (s < t /\ IsFlipped(t) /\ WasLabel(s) = WasLabel(t))
              => IsFlipped(s)
\* the fewest flips that bring the rate back into [0.28, 0.35]
MinimalFlips ==
    IF DrawnPositives * 100 < 28 * generator.n
    THEN (28 * generator.n + 99) \div 100 - DrawnPositives
    ELSE IF DrawnPositives * 100 > 35 * generator.n
    THEN DrawnPositives - (35 * generator.n) \div 100
    ELSE 0

\* C24 as stated: a rate already in [0.28, 0.35] changes no label; otherwise
\* labels are flipped in one direction, nearest to p = 0.5 first, and as few
\* as it takes to bring the rate back into [0.28, 0.35].
C24_Original ==
    RebalanceDone =>
        /\ DrawnInBand => FlippedRows = 0
        /\ OneDirectionNearestFirst
        /\ FlippedRows = MinimalFlips

\* C24, amended: a rate already in [0.28, 0.35] changes no label; otherwise
\* labels are flipped in one direction, nearest to p = 0.5 first, and as
\* many as separate the positives from round(0.32 n): the rate becomes the
\* target 0.32, not the nearer edge of the band.
C24_Amended ==
    RebalanceDone =>
        LET desired == RoundHalfEven(32 * generator.n, 100)
            gap == IF desired >= DrawnPositives
                   THEN desired - DrawnPositives
                   ELSE DrawnPositives - desired
        IN /\ DrawnInBand => FlippedRows = 0
           /\ OneDirectionNearestFirst
           /\ ~DrawnInBand =>
                 /\ FlippedRows = gap
                 /\ Positives(generator.fell_within_30_days) = desired
                 /\ FlippedRows >= MinimalFlips

\* 800000 positives in two runs, the nearer run of 200000 negatives first:
\* 160000 positives of the first positive run are flipped, the second
\* positive run is left alone
C24_Witness ==
    /\ RebalanceDone
    /\ Len(generator.drawn) = 3
    /\ generator.drawn[1].label = 1 /\ generator.drawn[1].count = 300000
    /\ generator.drawn[3].count = 500000
    /\ FlippedRows = 160000
    /\ LabelAt(generator.fell_within_30_days, 160000) = 0
    /\ LabelAt(generator.fell_within_30_days, 160001) = 1

--------------------------------------------------------------------------
\* The feature columns of generate_fall_risk_dataset
\* (training_data/generate_synthetic_data.py, lines 44-107 and 228-256),
\* followed for one row of the n rows.  A normal draw is taken after
\* np.round(...).astype(np.int16), so it is some 16-bit integer; which row
\* sets a row falls in is a draw as well, within the sizes the code asks for.

\* line 39: the row counts tried, with and without room for outliers
RowCounts == {0, 1, 33, 34, default_n}
\* rounded normal draws after the cast to int16, inside and outside every
\* range the code clips to
Int16Draws == {0 - 32768, 0 - 1, 0, 9, 19, 20, 31, 89, 101, 181, 32767}

\* no range is enforced on a drawn value
NpClip_unclipped(vals, lo, hi) == vals
\* np.clip(vals, lo, hi), lines 64, 77, 89, 94, 95, 103-106
NpClip(vals, lo, hi) ==
    IF vals < lo THEN lo ELSE IF vals > hi THEN hi ELSE vals
\* .astype(np.int8), lines 66, 79, 107: the low 8 bits, signed
AsInt8(v) == ((v + 128) % 256) - 128
\* line 91 and line 93: int(0.03 * n) rows in each outlier set
OutlierCount(n) == (3 * n) \div 100
\* line 99: int(0.90 * n) rows with a normal oxygen saturation
normal_size(n) == (9 * n) \div 10

NoRow == [age_group |-> AbsentNum]
Drawing(n, row) == [pc |-> "age", n |-> n, row |-> row]

\* lines 47-50: age group and mobility level of the row
DrawAgeMobility ==
    /\ generator.pc = "age"
    /\ \E a \in {0, 1, 2, 3}, m \in {0, 1, 2, 3} :
          generator' =
              [generator EXCEPT
                  !.pc = "mmse",
                  !.row = IF generator.n = 0 THEN NoRow
                          ELSE [age_group |-> AsInt8(a),
                                mobility_level |-> AsInt8(m)]]
    /\ UNCHANGED <<service, windower, scorer>>

\* the row with one more column; a dataset of no rows gets nothing
WithColumns(cols) ==
    IF generator.n = 0 THEN NoRow
    ELSE [k \in DOMAIN generator.row \cup DOMAIN cols |->
             IF k \in DOMAIN cols THEN cols[k] ELSE generator.row[k]]

\* lines 58-69: MMSE and the impairment flag derived from it
DrawMmse ==
    /\ generator.pc = "mmse"
    /\ \E vals \in Int16Draws :
          LET mmse == AsInt8(NpClip(vals, 10, 30))
          IN generator' =
                 [generator EXCEPT
                     !.pc = "polypharmacy",
                     !.row = WithColumns(
                         [mmse_score |-> mmse,
                          cognitive_impairment_flag |->
                              AsInt8(IF mmse < 20 THEN 1 ELSE 0)])]
    /\ UNCHANGED <<service, windower, scorer>>

\* lines 71-79
DrawPolypharmacy ==
    /\ generator.pc = "polypharmacy"
    /\ \E vals \in Int16Draws :
          generator' =
              [generator EXCEPT
                  !.pc = "bp",
                  !.row = WithColumns(
                      [polypharmacy_count |->
                           AsInt8(NpClip(vals, 0, 15))])]
    /\ UNCHANGED <<service, windower, scorer>>

\* lines 85-96: the base pressure, then the low outliers on int(0.03 n) rows
\* and the high outliers on as many of the remaining rows
DrawBp ==
    /\ generator.pc = "bp"
    /\ \E base \in Int16Draws, outlier \in Int16Draws,
          in_low \in BOOLEAN, in_high \in BOOLEAN :
          /\ in_low => OutlierCount(generator.n) >= 1
          /\ in_high => (~in_low /\ OutlierCount(generator.n) >= 1)
          /\ (~in_low /\ ~in_high) => outlier = 0
          /\ generator' =
                 [generator EXCEPT
                     !.pc = "oxygen",
                     !.row = WithColumns(
                         [bp_systolic |->
                              IF in_low THEN NpClip(outlier, 90, 100)
                              ELSE IF in_high THEN NpClip(outlier, 160, 180)
                              ELSE NpClip(base, 95, 170),
                          bp_outlier |->
                              IF in_low THEN "low"
                              ELSE IF in_high THEN "high" ELSE "none"])]
    /\ UNCHANGED <<service, windower, scorer>>

\* lines 98-107: int(0.90 n) rows are normal, the others hypoxic
DrawOxygen ==
    /\ generator.pc = "oxygen"
    /\ \E vals \in Int16Draws, in_normal \in BOOLEAN :
          /\ in_normal => normal_size(generator.n) >= 1
          /\ generator' =
                 [generator EXCEPT
                     !.pc = "assembled",
                     !.row = WithColumns(
                         [oxygen_sat |->
                              AsInt8(IF in_normal
                                     THEN NpClip(vals, 92, 100)
                                     ELSE NpClip(vals, 85, 92))])]
    /\ UNCHANGED <<service, windower, scorer>>

\* df[column].between(lo, hi)
Between(v, lo, hi) == lo <= v /\ v <= hi

\* lines 250-256 for the row; a frame of no rows passes every .all()
Clean(row) ==
    row = NoRow \/
        /\ Between(row.mmse_score, 10, 30)
        /\ row.cognitive_impairment_flag =
               AsInt8(IF row.mmse_score < 20 THEN 1 ELSE 0)
        /\ Between(row.polypharmacy_count, 0, 15)
        /\ Between(row.bp_systolic, 90, 180)
        /\ Between(row.oxygen_sat, 85, 100)
        /\ row.age_group \in {0, 1, 2, 3}
        /\ row.mobility_level \in {0, 1, 2, 3}

\* lines 228-256: the frame is assembled and the assertions are evaluated
CheckCleanliness ==
    /\ generator.pc = "assembled"
    /\ generator' =
           [generator EXCEPT
               !.pc = IF Clean(generator.row)
                      THEN "clean" ELSE "AssertionError"]
    /\ UNCHANGED <<service, windower, scorer>>

InitFeatures ==
    /\ ServiceNotStarted
    /\ windower = NoRun
    /\ scorer = NoRun
    /\ \E n \in RowCounts : generator = Drawing(n, NoRow)

NextFeatures ==
    \/ DrawAgeMobility
    \/ DrawMmse
    \/ DrawPolypharmacy
    \/ DrawBp
    \/ DrawOxygen
    \/ CheckCleanliness

SpecFeatures == InitFeatures /\ [][NextFeatures]_vars

\* C25: the cleanliness assertions never fail, for any n and any outcome of
\* the draws: mmse_score in [10, 30], cognitive_impairment_flag equal to
\* (mmse_score < 20), polypharmacy_count in [0, 15], bp_systolic in [90, 180]
\* with the low and the high outliers on disjoint rows, oxygen_sat in
\* [85, 100], age_group and mobility_level in {0, 1, 2, 3}.
C25_AssertionsHold ==
    /\ generator.pc # "AssertionError"
    /\ generator.pc \in {"assembled", "clean"} => Clean(generator.row)

\* a row of the high outlier set whose draw of 181 was cut to 180, with an
\* MMSE draw of 19 that sets the impairment flag, passes the assertions
C25_Witness ==
    /\ generator.pc = "clean"
    /\ generator.n = 34
    /\ generator.row.bp_outlier = "high"
    /\ generator.row.bp_systolic = 180
    /\ generator.row.mmse_score = 19
    /\ generator.row.cognitive_impairment_flag = 1

--------------------------------------------------------------------------
\* the start-up step that loads a sequence model (lines 591-601, 608-618)
LoadsSequenceModel == boot \in {"load_mood", "load_medication"}

\* C26: a failure to load the mood or the medication sequence model at
\* start-up only leaves that model None: the step keeps the loaded fall
\* model and scaler, touches no other model, and start-up goes on; and a
\* fall request is served by the fall model also when a sequence model is
\* None.
C26_StartupIsolation ==
    /\ [][LoadsSequenceModel =>
            /\ fall_model = "loaded" /\ fall_model' = "loaded"
            /\ fall_scaler = "loaded" /\ fall_scaler' = "loaded"
            /\ boot = "load_mood" =>
                  /\ mood_lstm_model' \in {"loaded", "None"}
                  /\ boot' = "load_mood_scaler"
                  /\ UNCHANGED <<medication_lstm_model,
                                 medication_scaler_info>>
            /\ boot = "load_medication" =>
                  /\ medication_lstm_model' \in {"loaded", "None"}
                  /\ boot' = "load_medication_scaler"
                  /\ UNCHANGED <<mood_lstm_model, mood_scaler_info>>]_vars
    /\ [](  (Done /\ req.ep = "fall" /\ fall_model = "loaded"
             /\ (mood_lstm_model = "None" \/ medication_lstm_model = "None"))
          => /\ resp # FallModelUnavailable
             /\ HasObservations =>
                   (resp.status = 200 \/ FallLoop(req.data.features,
                                                  req.env).raises))

\* both sequence models are None, the fall model is loaded and a fall request
\* with observations got its score
C26_Witness ==
    /\ Done /\ req.ep = "fall" /\ HasObservations
    /\ fall_model = "loaded" /\ fall_scaler = "loaded"
    /\ mood_lstm_model = "None" /\ medication_lstm_model = "None"
    /\ resp.status = 200
    /\ resp.model = "GradientBoostingClassifier"

--------------------------------------------------------------------------
StartupOver == boot \in {"loaded", "serving"}

\* C27: once start-up is over, fall_model and fall_scaler are both loaded or
\* both None; a fall request that got past the `fall_model is None` guard
\* therefore only ever calls transform on a loaded scaler.
C27_FallPair ==
    StartupOver =>
        /\ \/ fall_model = "loaded" /\ fall_scaler = "loaded"
           \/ fall_model = "None" /\ fall_scaler = "None"
        /\ (Done /\ req.ep = "fall" /\ "fall_scaler.transform" \in calls) =>
              fall_scaler = "loaded"
        /\ (Done /\ req.ep = "fall" /\ fall_model = "None") => calls = {}

\* a fall request that called transform, after a start-up that loaded the pair
C27_Witness ==
    /\ Done /\ req.ep = "fall"
    /\ "fall_scaler.transform" \in calls
    /\ fall_model = "loaded" /\ fall_scaler = "loaded"
    /\ resp.status = 200

--------------------------------------------------------------------------
\* the threshold interval [lo, hi) of a risk level, in 1/10000
TierInterval(risk_level) ==
    CASE risk_level = "very_high" -> <<7500, 10001>>
      [] risk_level = "high" -> <<5000, 7500>>
      [] risk_level = "moderate" -> <<3000, 5000>>
      [] risk_level = "low_moderate" -> <<1500, 3000>>
      [] risk_level = "low" -> <<0, 1500>>

\* C28 (as claimed): in every success response of the fall endpoint for a
\* non-empty input the reported fall_risk_probability, the value rounded to
\* 3 decimals, lies inside the threshold interval of the reported
\* risk_level.
C28_ReportedInTier ==
    (Done /\ req.ep = "fall" /\ HasObservations /\ resp.status = 200) =>
        /\ resp.probability >= TierInterval(resp.tier)[1]
        /\ resp.probability < TierInterval(resp.tier)[2]

--------------------------------------------------------------------------
\* the classifier was invoked for the request in req and its block ran to
\* the end: predict returned and its class was found in the mapping
ClassifierCompleted ==
    /\ Predictor \in calls
    /\ ~req.env.lstm_raises
    /\ req.env.lstm_class \in 0..3
LstmName ==
    IF req.ep = "mood" THEN "LSTM_Mood_Analyzer"
    ELSE "LSTM_Temporal_Adherence_Analyzer"
RuleName ==
    IF req.ep = "mood" THEN "Rule_Based_Mood_Analyzer"
    ELSE "Rule_Based_Adherence_Analyzer"

\* C29: in a success response of the mood or medication endpoint for a
\* non-empty input, `model` names the LSTM analyzer exactly when the
\* reported concern level came from a classifier invocation of this request
\* that completed without exception; model_note (for mood also
\* lstm_confidence, with risk_score = confidence x 100) is present exactly
\* then; otherwise `model` names the rule-based analyzer.
C29_ModelField ==
    (Done /\ Sequence /\ HasObservations /\ resp.status = 200) =>
        /\ resp.model \in {LstmName, RuleName}
        /\ (resp.model = LstmName) <=> ClassifierCompleted
        /\ (resp.model_note # Absent) <=> ClassifierCompleted
        /\ ClassifierCompleted =>
              resp.tier = <<"low", "moderate", "high",
                            "critical">>[req.env.lstm_class + 1]
        /\ ~ClassifierCompleted => resp.tier = RuleConcern[1]
        /\ req.ep = "mood" =>
              /\ (resp.lstm_confidence # AbsentNum) <=> ClassifierCompleted
              /\ ClassifierCompleted =>
                    /\ resp.lstm_confidence = req.env.lstm_confidence
                    /\ resp.risk_score = req.env.lstm_confidence * 10
        /\ req.ep = "medication" => resp.lstm_confidence = AbsentNum

\* a mood request answered by the classifier with confidence 0.9
C29_Witness ==
    /\ Done /\ req.ep = "mood" /\ HasObservations
    /\ resp.status = 200
    /\ ClassifierCompleted
    /\ resp.model = "LSTM_Mood_Analyzer"
    /\ resp.model_note = "AI-powered temporal mood pattern analysis"
    /\ resp.lstm_confidence = 900
    /\ resp.risk_score = 9000

--------------------------------------------------------------------------
\* sum of the second components of a sequence of pairs
RECURSIVE Frequencies(_)
Frequencies(pairs) ==
    IF pairs = << >> THEN 0 ELSE Head(pairs)[2] + Frequencies(Tail(pairs))

\* C30: for every non-empty medication request that is answered,
\* refusal_count is the length of refusal_details and at most total_days;
\* the days of refusal_details are 1-based and strictly increasing (they are
\* the refused days of the request); every refusal is in at most one
\* time-of-day bucket, so the four buckets sum to at most refusal_count; and
\* the refusal_reasons frequencies sum to at most refusal_count.
C30_Bookkeeping ==
    (Done /\ req.ep = "medication" /\ HasObservations /\ resp.status = 200) =>
        LET details == resp.refusal_details
        IN /\ resp.refusal_count = Len(details)
           /\ resp.refusal_count <= resp.observations
           /\ resp.observations = Len(req.data.features)
           /\ \A k \in 1..Len(details) :
                 /\ details[k].day \in 1..resp.observations
                 /\ req.data.features[details[k].day].medication_refused
                 /\ k > 1 => details[k - 1].day < details[k].day
           /\ \A day \in 1..Len(req.data.features) :
                 req.data.features[day].medication_refused =>
                     \E k \in 1..Len(details) : details[k].day = day
           /\ Len(resp.refusal_time_pattern) = 4
           /\ SeqSum(resp.refusal_time_pattern) <= resp.refusal_count
           /\ Frequencies(resp.refusal_reasons) <= resp.refusal_count

\* five refusals on days 1, 3, 4, 5 and 6 of six; the one without time and
\* reason is in no bucket and under no reason
C30_Witness ==
    /\ Done /\ req.ep = "medication" /\ resp.status = 200
    /\ resp.observations = 6
    /\ resp.refusal_count = 5
    /\ [k \in 1..5 |-> resp.refusal_details[k].day] = <<1, 3, 4, 5, 6>>
    /\ resp.refusal_time_pattern = <<1, 1, 1, 1>>
    /\ Frequencies(resp.refusal_reasons) = 4

====
